---------------------------- MODULE Spec2Model ----------------------------
(***************************************************************************)
(* A model of pyepwmorph: the morphing procedures (morph/procedures.py),   *)
(* the helpers they use (tools/utilities.py, tools/solar.py) and the       *)
(* orchestrator morph_epw (tools/workflow.py).                             *)
(*                                                                         *)
(* Numbers.  Physical values with two decimals are integers counting       *)
(* hundredths (12.34 is 1234).  A float that a division produces is an     *)
(* extended rational [n, d] with d >= 0: d > 0 is the number n/d, and      *)
(* d = 0 is what IEEE division gives, +inf (n > 0), -inf (n < 0) or NaN    *)
(* (n = 0).  Sky cover is an integer number of tenths, as in the EPW file. *)
(*                                                                         *)
(* Calendar.  The year of 8760 hours in 12 months is scaled down to        *)
(* NumMonths months of DaysPerMonth days of HoursPerDay hours; position i  *)
(* of a sequence (1-based) is row i-1 of the Python arrays.                *)
(***************************************************************************)
EXTENDS Integers, Sequences, FiniteSets, TLC

NumMonths == 2
DaysPerMonth == 2
HoursPerDay == 3

\* The longest list of requested variables, and the number of calls of
\* morph_epw on one weather file.
MaxVars == 3
MaxCalls == 2
MaxWrites == 3

YearHours == NumMonths * DaysPerMonth * HoursPerDay
YearDays == NumMonths * DaysPerMonth
Months == 1..NumMonths
Rows == 1..YearHours

---------------------------------------------------------------------------
(* Arithmetic helpers *)

Abs(x) == IF x < 0 THEN -x ELSE x

Sign(x) == IF x < 0 THEN -1 ELSE IF x > 0 THEN 1 ELSE 0

Min2(a, b) == IF a < b THEN a ELSE b

\* Division that rounds towards minus infinity, as // does.
TruncDivFloor(n, d) == n \div d

\* Series.astype(int): the integer part of n/d, towards zero (d > 0).
TruncDiv(n, d) == IF n >= 0 THEN n \div d ELSE -((-n) \div d)

\* round(): the integer nearest to n/d, a tie going to the even one (d > 0).
RoundDiv(n, d) ==
    LET q == n \div d
        r == n % d
    IN  IF 2 * r < d THEN q
        ELSE IF 2 * r > d THEN q + 1
        ELSE IF q % 2 = 0 THEN q ELSE q + 1

\* np.clip(x, lo, hi)
Clip(x, lo, hi) == IF x < lo THEN lo ELSE IF x > hi THEN hi ELSE x

RECURSIVE SumSeq(_)
SumSeq(s) == IF s = <<>> THEN 0 ELSE Head(s) + SumSeq(Tail(s))

RECURSIVE SumOver(_, _)
SumOver(f, S) ==
    IF S = {} THEN 0
    ELSE LET x == CHOOSE y \in S : TRUE IN f[x] + SumOver(f, S \ {x})

MaxOf(S) == CHOOSE x \in S : \A y \in S : y <= x
MinOf(S) == CHOOSE x \in S : \A y \in S : x <= y

---------------------------------------------------------------------------
(* Floats: extended rationals *)

RECURSIVE GCD(_, _)
GCD(a, b) == IF b = 0 THEN a ELSE GCD(b, a % b)

\* The float n/d in lowest terms, its sign carried by n; x/0 is +inf, -inf
\* or NaN.
Ratio(n, d) ==
    IF d = 0 THEN [n |-> Sign(n), d |-> 0]
    ELSE LET g == GCD(Abs(n), Abs(d))
         IN  [n |-> Sign(d) * (n \div g), d |-> Abs(d) \div g]

Num(k) == [n |-> k, d |-> 1]
NaN == [n |-> 0, d |-> 0]
PosInf == [n |-> 1, d |-> 0]
NegInf == [n |-> -1, d |-> 0]

IsFinite(x) == x.d > 0
IsNaN(x) == x.d = 0 /\ x.n = 0

FMul(x, y) == Ratio(x.n * y.n, x.d * y.d)

FAdd(x, y) ==
    IF x.d = 0 /\ y.d = 0
    THEN (IF x.n = y.n THEN x ELSE NaN)
    ELSE Ratio(x.n * y.d + y.n * x.d, x.d * y.d)

FSub(x, y) == FAdd(x, [n |-> -y.n, d |-> y.d])

FDiv(x, y) ==
    IF y.d = 0 THEN (IF y.n = 0 \/ x.d = 0 THEN NaN ELSE Num(0))
    ELSE IF y.n = 0 THEN Ratio(x.n * y.d, 0)
    ELSE Ratio(x.n * y.d * Sign(y.n), x.d * Abs(y.n))

\* round(x, 2) of a float counted in hundredths: inf and NaN stay.
FRound(x) == IF x.d = 0 THEN x ELSE Num(RoundDiv(x.n, x.d))

\* No clipping at all.
FClipNone(x, lo, hi) == x

\* np.clip(x, lo, hi) of a float; NaN stays NaN.
FClip(x, lo, hi) ==
    IF x.d = 0 THEN (IF x.n > 0 THEN Num(hi) ELSE IF x.n < 0 THEN Num(lo) ELSE x)
    ELSE IF x.n < lo * x.d THEN Num(lo)
    ELSE IF x.n > hi * x.d THEN Num(hi)
    ELSE x

---------------------------------------------------------------------------
(* Series: a pandas Series is its name, its dtype, its index labels and    *)
(* its values.  A label of a DatetimeIndex carries the month it falls in   *)
(* and its hour of the year; a label of a RangeIndex carries neither.      *)

MonthOf(i) == ((i - 1) \div (DaysPerMonth * HoursPerDay)) + 1
DayOf(i) == ((i - 1) \div HoursPerDay) + 1
HourOf(i) == (i - 1) % HoursPerDay

\* ts_8760(): one timestamp per hour of the year.
ts_8760 ==
    [i \in Rows |-> [kind |-> "datetime", month |-> MonthOf(i), hour |-> i - 1]]

\* The default index of pd.Series(values): 0, 1, ..., n-1.
RangeIndex(n) ==
    [i \in 1..n |-> [kind |-> "range", month |-> 0, hour |-> i - 1]]

Series(name, dtype, index, values) ==
    [name |-> name, dtype |-> dtype, index |-> index, values |-> values]

\* Series.rename(name)
rename(s, name) == [s EXCEPT !.name = name]

\* The day of the year a timestamp falls on.
DayOfLabel(label) == (label.hour \div HoursPerDay) + 1

---------------------------------------------------------------------------
(* tools/utilities.py *)

absolute_delta(future, historical) ==
    [m \in DOMAIN future |-> FSub(future[m], historical[m])]

relative_delta(future, historical) ==
    [m \in DOMAIN future |-> FDiv(future[m], historical[m])]

\* dict(zip(months, data)): the keys 1..min(12, len(data)).
\* calendar.isleap
isleap(year) == year % 4 = 0 /\ (year % 100 # 0 \/ year % 400 = 0)

\* The month that has the leap day: February.
LeapMonth == Min2(2, NumMonths)

\* The k-th hour (from 0) of a year with or without a leap day, as a
\* timestamp; the leap day is the day after the last of the leap month.
Timestamp(k, leap, minute) ==
    LET doy == k \div HoursPerDay
        leap_doy == LeapMonth * DaysPerMonth
        plain == IF leap /\ doy > leap_doy THEN doy - 1 ELSE doy
    IN  IF leap /\ doy = leap_doy
        THEN [month |-> LeapMonth, day |-> DaysPerMonth + 1,
              hour |-> k % HoursPerDay, minute |-> minute]
        ELSE [month |-> (plain \div DaysPerMonth) + 1, day |-> (plain % DaysPerMonth) + 1,
              hour |-> k % HoursPerDay, minute |-> minute]

\* A time zone of the tz database, by the hours of the year 2022, counted
\* from its start in UTC, in which its clocks are one hour ahead of those at
\* the start of the year.
NoTz == [name |-> "None", ahead_from |-> 0, ahead_until |-> 0]

UtcOffset(tz, elapsed) == IF tz.ahead_from <= elapsed /\ elapsed < tz.ahead_until THEN 1 ELSE 0

\* pd.date_range(start, end, freq="h", tz=tz) over the year 2022: start and
\* end are wall-clock times of the zone, the hours between are counted in
\* UTC and labelled with the wall-clock time.
date_range_tz(tz) ==
    LET end_wall == YearHours - 1
        end_utc == CHOOSE e \in 0..end_wall : e + UtcOffset(tz, e) = end_wall
    IN  [k \in 1..(end_utc + 1) |-> Timestamp((k - 1) + UtcOffset(tz, k - 1), FALSE, 30)]

\* pd.date_range(start, end, freq="h") over a year.
date_range_year(year) ==
    [k \in 1..((YearDays + (IF isleap(year) THEN 1 ELSE 0)) * HoursPerDay) |->
        Timestamp(k - 1, isleap(year), 0)]

\* ts_8760(year, tz); the index of the default call is ts_8760 above.
ts_8760_year_tz(year, tz) ==
    LET index == IF tz = NoTz THEN date_range_year(year) ELSE date_range_tz(tz)
    IN  IF isleap(year)
        THEN SelectSeq(index, LAMBDA t : ~(t.month = LeapMonth /\ t.day = DaysPerMonth + 1))
        ELSE index

\* solar_geometry: the column 'hour' of its table, the clock hour of each of
\* the hours that follow the first midnight of the year in the zone of the
\* location.
solar_geometry_hour(tz) ==
    [k \in 1..YearHours |-> ((k - 1) + UtcOffset(tz, k - 1)) % HoursPerDay]

\* A mapping that gives every key the first value.
zip_month_data_first(data) ==
    [m \in 1..Min2(NumMonths, Len(data)) |-> data[1]]

zip_month_data(data) ==
    [m \in 1..Min2(NumMonths, Len(data)) |-> data[m]]

\* dict(zip(days, data)): the keys 1..min(365, len(data)).
zip_day_data(data) ==
    [d \in 1..Min2(YearDays, Len(data)) |-> data[d]]

\* data.tolist() of an ndarray or a Series; a list is taken as it is, and so
\* is, after a printed warning, any other iterable.
tolist(data) == data.items

\* np.hypot on whole numbers whose hypotenuse is whole.
ISqrt(k) == CHOOSE r \in 0..k : r * r <= k /\ k < (r + 1) * (r + 1)

uas_vas_2_sfcwind(uas, vas) ==
    [m \in DOMAIN uas |-> Num(ISqrt(uas[m].n * uas[m].n + vas[m].n * vas[m].n))]

\* The rows of a series that fall in month m, and on day d.
RowsOfMonth(s, m) == {i \in DOMAIN s.values : s.index[i].month = m}
RowsOfDay(s, d) == {i \in DOMAIN s.values : DayOfLabel(s.index[i]) = d}
DaysOfMonth(s, m) == {DayOfLabel(s.index[i]) : i \in RowsOfMonth(s, m)}

\* timeseries.resample("D").max() / .min() / .sum() on values with two decimals.
DailyMax(s, d) == MaxOf({s.values[i].n : i \in RowsOfDay(s, d)})
DailyMin(s, d) == MinOf({s.values[i].n : i \in RowsOfDay(s, d)})
DailySum(s, d) == SumOver([i \in DOMAIN s.values |-> s.values[i].n], RowsOfDay(s, d))

\* min_max_mean_means: per month the mean over its days of the daily
\* maximum, minimum and mean.
min_max_mean_means(s) ==
    LET days(m) == DaysOfMonth(s, m)
        dmax == [d \in 1..YearDays |-> DailyMax(s, d)]
        dmin == [d \in 1..YearDays |-> DailyMin(s, d)]
        dsum == [d \in 1..YearDays |-> DailySum(s, d)]
    IN  [max  |-> [m \in Months |-> Ratio(SumOver(dmax, days(m)), Cardinality(days(m)))],
         min  |-> [m \in Months |-> Ratio(SumOver(dmin, days(m)), Cardinality(days(m)))],
         mean |-> [m \in Months |->
                     Ratio(SumOver(dsum, days(m)), HoursPerDay * Cardinality(days(m)))]]

---------------------------------------------------------------------------
(* morph/procedures.py: the primitive transforms *)

shift(present, delta) == FAdd(present, delta)

stretch(present, stretch_factor) == FMul(present, stretch_factor)

\* A stretch around zero instead of around the temporal mean.
shift_stretch_about_zero(present, delta, scaling_factor, temporal_mean) ==
    FAdd(FAdd(present, delta), FMul(scaling_factor, present))

shift_stretch(present, delta, scaling_factor, temporal_mean) ==
    FAdd(FAdd(present, delta), FMul(scaling_factor, FSub(present, temporal_mean)))

---------------------------------------------------------------------------
(* morph/procedures.py: the variable morph procedures.  present_* is a     *)
(* Series with the hourly DatetimeIndex; future_* and baseline_* are       *)
(* monthly climatologies, sequences of floats in month order.              *)

\* A value given in whole units, counted in hundredths.
Hundredths(k) == k * 100

\* x.astype(int) of a finite float.
AsInt(x) == TruncDiv(x.n, x.d)

\* df.index.month of row i.
MonthOfRow(s, i) == s.index[i].month

morph_dbt_year(present_dbt, future_tas, baseline_tas, future_tasmax, baseline_tasmax, future_tasmin, baseline_tasmin) ==
    LET stats == min_max_mean_means(present_dbt)
        tas_delta == absolute_delta(future_tas, baseline_tas)
        tasmin_delta == absolute_delta(future_tasmin, baseline_tasmin)
        tasmax_delta == absolute_delta(future_tasmax, baseline_tasmax)
        dbt_delta == zip_month_data(tas_delta)
        dbt_scale == zip_month_data(
            [m \in Months |-> FDiv(FSub(tasmax_delta[m], tasmin_delta[m]),
                                   FSub(stats.max[m], stats.min[m]))])
        dbt_mean == zip_month_data(stats.mean)
        morphed_dbt == [i \in DOMAIN present_dbt.values |->
            shift_stretch(present_dbt.values[i],
                          dbt_delta[MonthOfRow(present_dbt, i)],
                          dbt_scale[MonthOfRow(present_dbt, i)],
                          dbt_mean[MonthOfRow(present_dbt, i)])]
    IN  Series("drybulb_C", "float64", present_dbt.index,
               [i \in DOMAIN morphed_dbt |-> FRound(morphed_dbt[i])])

morph_relhum(present_relhum, future_huss, baseline_huss) ==
    LET relhum_stretch == relative_delta(future_huss, baseline_huss)
        relhum_change == zip_month_data(relhum_stretch)
        morphed_relhum == [i \in DOMAIN present_relhum.values |->
            stretch(present_relhum.values[i],
                    relhum_change[MonthOfRow(present_relhum, i)])]
        clipped == [i \in DOMAIN morphed_relhum |->
            FClip(morphed_relhum[i], Hundredths(1), Hundredths(100))]
    IN  Series("relhum_percent", "float64", RangeIndex(Len(clipped)),
               [i \in DOMAIN clipped |-> FRound(clipped[i])])

morph_psl(present_psl, future_psl, baseline_psl) ==
    LET psl_delta == absolute_delta(future_psl, baseline_psl)
        psl_change == zip_month_data(psl_delta)
        morphed_psl == [i \in DOMAIN present_psl.values |->
            shift(present_psl.values[i], psl_change[MonthOfRow(present_psl, i)])]
    IN  Series("atmos_Pa", "float64", present_psl.index,
               [i \in DOMAIN morphed_psl |-> FRound(morphed_psl[i])])

\* meteocalc's dew_point(temperature, humidity), a function of exactly its
\* two arguments; its formula is left uninterpreted.
calcdewpt(temperature, humidity) == [t |-> temperature, rh |-> humidity]

\* future_dbt and future_relhm are arrays of values.
morph_dewpt(future_dbt, future_relhm) ==
    Series("dewpoint_C", "float64", RangeIndex(Len(future_dbt)),
           [i \in DOMAIN future_dbt |->
               calcdewpt(future_dbt[i],
                         FClip(future_relhm[i], Hundredths(1), Hundredths(100)))])

morph_wspd(present_wspd, future_vas, baseline_vas, future_uas, baseline_uas) ==
    LET fut_spd == uas_vas_2_sfcwind(future_vas, future_uas)
        baseline_spd == uas_vas_2_sfcwind(baseline_vas, baseline_uas)
        wspd_delta == relative_delta(fut_spd, baseline_spd)
        wspd_shift == [m \in DOMAIN wspd_delta |->
            FAdd(Num(1), FDiv(wspd_delta[m], Num(100)))]
        scale_factor_wspd == zip_month_data(wspd_shift)
        morphed_wspd == [i \in DOMAIN present_wspd.values |->
            stretch(present_wspd.values[i],
                    scale_factor_wspd[MonthOfRow(present_wspd, i)])]
    IN  Series("windspd_ms", "float64", present_wspd.index,
               [i \in DOMAIN morphed_wspd |-> FRound(morphed_wspd[i])])

\* The sums per month of morph_glohor: hours and watt-hours.
\* Every month counted as a single hour.
month_hours_one(present_glohor) == zip_month_data([m \in Months |-> 1])

month_hours(present_glohor) ==
    zip_month_data([m \in Months |-> Cardinality(RowsOfMonth(present_glohor, m))])

month_glohor(present_glohor) ==
    zip_month_data([m \in Months |->
        SumOver([i \in DOMAIN present_glohor.values |-> present_glohor.values[i].n],
                RowsOfMonth(present_glohor, m))])

\* month_glohor_mean_list holds Python floats; dividing by one that is 0.0
\* raises ZeroDivisionError.
morph_glohor_raises(present_glohor, future_glohor, baseline_glohor) ==
    \E m \in Months : month_glohor(present_glohor)[m] = 0

morph_glohor(present_glohor, future_glohor, baseline_glohor) ==
    LET hours == month_hours(present_glohor)
        sums == month_glohor(present_glohor)
        month_glohor_mean_list == zip_month_data(
            [m \in Months |-> Ratio(sums[m], hours[m])])
        delta_glohor == absolute_delta(future_glohor, baseline_glohor)
        glohor_change == zip_month_data(delta_glohor)
        glohor_shift_factors == zip_month_data(
            [m \in Months |->
                FAdd(Num(1), FDiv(glohor_change[m], month_glohor_mean_list[m]))])
        morphed_glohor == [i \in DOMAIN present_glohor.values |->
            stretch(present_glohor.values[i],
                    glohor_shift_factors[MonthOfRow(present_glohor, i)])]
    IN  Series("atmos_Pa", "float64", present_glohor.index,
               [i \in DOMAIN morphed_glohor |-> FRound(morphed_glohor[i])])

\* Sky cover counts whole tenths; clt is a cloud fraction in percent.
calc_tsc(present_tsc, future_clt, baseline_clt) ==
    LET delta == absolute_delta(future_clt, baseline_clt)
        clt_delta == [m \in DOMAIN delta |-> AsInt(FDiv(delta[m], Num(10)))]
        clt_change == zip_month_data(clt_delta)
        morphed_tsc == [i \in DOMAIN present_tsc.values |->
            shift(Num(present_tsc.values[i]),
                  Num(clt_change[MonthOfRow(present_tsc, i)]))]
        clipped == [i \in DOMAIN morphed_tsc |-> AsInt(FClip(morphed_tsc[i], 0, 10))]
    IN  Series("totskycvr_tenths", "int64", RangeIndex(Len(clipped)), clipped)

\* np.divide(..., out=np.zeros_like(present_osc)) cannot write its float
\* quotient into an integer array.
calc_osc_raises(morphed_tsc, present_osc, present_tsc) ==
    present_osc.dtype = "int64"

\* np.where(condition) with one argument: the rows (from 0) at which the
\* product is not zero.
calc_osc(morphed_tsc, present_osc, present_tsc) ==
    LET osc_tsc_ratio == [i \in DOMAIN present_osc.values |->
            IF present_tsc.values[i] # 0
            THEN Ratio(present_osc.values[i], present_tsc.values[i])
            ELSE Num(0)]
        product == [i \in DOMAIN osc_tsc_ratio |->
            FMul(osc_tsc_ratio[i], Num(morphed_tsc[i]))]
        rows == [i \in DOMAIN product |-> i - 1]
    IN  SelectSeq(rows, LAMBDA r : product[r + 1].n # 0)

---------------------------------------------------------------------------
(* tools/solar.py *)

\* The clock hours of sunrise and of sunset on each day, as pvlib's
\* get_sun_rise_set_transit gives them for the location; NoHour on a day
\* without sunrise or sunset (NaT).
NoHour == -1

\* The markers without those of the first and the last hour of the year.
build_sunrise_sunset_unmarked_ends(sunrise_hour, sunset_hour) ==
    [i \in Rows |-> (IF HourOf(i) = sunrise_hour[DayOf(i)] THEN 2 ELSE 0)
                    + (IF HourOf(i) = sunset_hour[DayOf(i)] THEN 3 ELSE 0)]

build_sunrise_sunset(sunrise_hour, sunset_hour) ==
    LET sunrise == [i \in Rows |-> IF HourOf(i) = sunrise_hour[DayOf(i)] THEN 2 ELSE 0]
        sunset == [i \in Rows |-> IF HourOf(i) = sunset_hour[DayOf(i)] THEN 3 ELSE 0]
        sunrise_sunset == [i \in Rows |-> sunrise[i] + sunset[i]]
    IN  [i \in Rows |-> IF i = YearHours THEN 4
                        ELSE IF i = 1 THEN 1
                        ELSE sunrise_sunset[i]]

\* A Python object that is subscripted: an array of floats or one float.
Array(items) == [kind |-> "array", items |-> items, value |-> NaN]
Scalar(value) == [kind |-> "scalar", items |-> <<>>, value |-> value]

\* What an expression evaluates to: a float, or the exception it raises.
Value(v) == [raised |-> "", value |-> v]
Raise(e) == [raised |-> e, value |-> NaN]

\* obj[k]: a numpy float cannot be subscripted; an array takes k from -len
\* to len-1, a negative k counting from the end.
Subscript(obj, k) ==
    IF obj.kind = "scalar" THEN Raise("IndexError")
    ELSE LET n == Len(obj.items)
         IN  IF k >= n \/ k < -n THEN Raise("IndexError")
             ELSE Value(obj.items[(IF k < 0 THEN k + n ELSE k) + 1])

persistence_sunrise_sunset(hourly_clearness, sunrise_sunset, row_number) ==
    IF sunrise_sunset = 4 THEN Subscript(hourly_clearness, row_number)
    ELSE IF sunrise_sunset = 2 THEN Subscript(hourly_clearness, row_number + 1)
    ELSE IF sunrise_sunset = 3 THEN Subscript(hourly_clearness, row_number - 1)
    ELSE IF sunrise_sunset = 1 THEN Subscript(hourly_clearness, row_number)
    ELSE LET before == Subscript(hourly_clearness, row_number - 1)
             after == Subscript(hourly_clearness, row_number + 1)
         IN  IF before.raised # "" THEN before
             ELSE IF after.raised # "" THEN after
             ELSE Value(FDiv(FAdd(before.value, after.value), Num(2)))

\* The indices at which persistence_sunrise_sunset subscripts the clearness
\* for a marker and a row number.
lookups(sunrise_sunset, row_number) ==
    IF sunrise_sunset = 4 THEN {row_number}
    ELSE IF sunrise_sunset = 2 THEN {row_number + 1}
    ELSE IF sunrise_sunset = 3 THEN {row_number - 1}
    ELSE IF sunrise_sunset = 1 THEN {row_number}
    ELSE {row_number - 1, row_number + 1}

\* df.apply(..., axis=1) hands each row's own clearness, one float, to
\* persistence_sunrise_sunset; the first row that raises ends the call.
persistence(hourly_clearness, sunrise_sunset) ==
    LET rows == [i \in DOMAIN hourly_clearness |->
            persistence_sunrise_sunset(Scalar(hourly_clearness[i]),
                                       sunrise_sunset[i], i - 1)]
    IN  IF \E i \in DOMAIN rows : rows[i].raised # ""
        THEN [raised |-> rows[CHOOSE i \in DOMAIN rows :
                                  /\ rows[i].raised # ""
                                  /\ \A j \in 1..(i - 1) : rows[j].raised = ""].raised,
              values |-> <<>>]
        ELSE [raised |-> "", values |-> [i \in DOMAIN rows |-> rows[i].value]]

\* calc_clearness, hourly: glohor / exthor, 0 where exthor is 0.
calc_clearness_hourly(glohor, exthor) ==
    [i \in DOMAIN glohor |->
        IF exthor[i].n = 0 THEN Num(0) ELSE FDiv(glohor[i], exthor[i])]

\* calc_diffhor, up to the persistence it needs: the morphed global
\* radiation must be a Series, since its .values is read first; an ndarray
\* has none.
calc_diffhor(sunrise_hour, sunset_hour, morphed_glohor, present_exthor) ==
    IF morphed_glohor.kind = "ndarray" THEN [raised |-> "AttributeError", values |-> <<>>]
    ELSE persistence(calc_clearness_hourly(morphed_glohor.values, present_exthor),
                     build_sunrise_sunset(sunrise_hour, sunset_hour))

---------------------------------------------------------------------------
(* tools/workflow.py and tools/configuration.py *)

UserVariables ==
    {"Temperature", "Humidity", "Pressure", "Wind", "Clouds and Radiation", "Dew Point"}

ModelVariables ==
    {"tas", "tasmax", "tasmin", "huss", "psl", "uas", "vas", "rsds", "clt"}

RangeOf(seq) == {seq[i] : i \in DOMAIN seq}

\* A configuration in which 'Dew Point' adds no model variable.
ContributionOfNoDewPoint(user_var, user_variables) ==
    IF user_var = "Temperature" THEN <<"tas", "tasmax", "tasmin">>
    ELSE IF user_var = "Pressure" THEN <<"psl">>
    ELSE IF user_var = "Wind" THEN <<"uas", "vas">>
    ELSE IF user_var = "Clouds and Radiation" THEN <<"clt", "rsds">>
    ELSE IF user_var = "Humidity" THEN <<"huss", "tas", "tasmax", "tasmin", "psl">>
    ELSE <<>>

\* What one requested variable adds to model_variables; a name that is not
\* recognised adds nothing.
ContributionOf(user_var, user_variables) ==
    LET temperature == "Temperature" \in RangeOf(user_variables)
        humidity == "Humidity" \in RangeOf(user_variables)
        pressure == "Pressure" \in RangeOf(user_variables)
    IN  IF user_var = "Temperature" THEN <<"tas", "tasmax", "tasmin">>
        ELSE IF user_var = "Humidity" THEN
            <<"huss">> \o (IF temperature /\ pressure THEN <<>>
                           ELSE IF temperature THEN <<"psl">>
                           ELSE IF pressure THEN <<"tas", "tasmax", "tasmin">>
                           ELSE <<"tas", "tasmax", "tasmin", "psl">>)
        ELSE IF user_var = "Pressure" THEN <<"psl">>
        ELSE IF user_var = "Wind" THEN <<"uas", "vas">>
        ELSE IF user_var = "Clouds and Radiation" THEN <<"clt", "rsds">>
        ELSE IF user_var = "Dew Point" THEN
            (IF temperature /\ humidity THEN <<>>
             ELSE IF temperature THEN <<"huss">>
             ELSE IF humidity THEN <<"tas", "tasmax", "tasmin">>
             ELSE <<"tas", "tasmax", "tasmin", "huss">>)
        ELSE <<>>

\* The list that the loop of assign_model_variables builds over the first n
\* requested variables.
RECURSIVE ModelVariablesOf(_, _)
ModelVariablesOf(user_variables, n) ==
    IF n = 0 THEN <<>>
    ELSE ModelVariablesOf(user_variables, n - 1)
             \o ContributionOf(user_variables[n], user_variables)

\* A list that keeps every element, repeated or not.
ListWithRepeats(list) == list

\* list(set(list)): each element once; the order, which Python leaves
\* open, is that of the first occurrences.
RECURSIVE ListOfSet(_)
ListOfSet(list) ==
    IF list = <<>> THEN <<>>
    ELSE LET front == ListOfSet(SubSeq(list, 1, Len(list) - 1))
             last == list[Len(list)]
         IN  IF last \in RangeOf(front) THEN front ELSE Append(front, last)

\* MorphConfig.assign_model_variables: the model variables, as a set
assign_model_variables(user_variables) ==
    RangeOf(ListOfSet(ModelVariablesOf(user_variables, Len(user_variables))))

PathwayNames == {"Best Case Scenario", "Middle of the Road", "Worst Case Scenario"}

PathwayContributionOf(user_path) ==
    IF user_path = "Best Case Scenario" THEN <<"historical", "ssp126">>
    ELSE IF user_path = "Middle of the Road" THEN <<"historical", "ssp245">>
    ELSE IF user_path = "Worst Case Scenario" THEN <<"historical", "ssp585">>
    ELSE <<>>

RECURSIVE ModelPathwaysOf(_, _)
ModelPathwaysOf(user_pathways, n) ==
    IF n = 0 THEN <<>>
    ELSE ModelPathwaysOf(user_pathways, n - 1) \o PathwayContributionOf(user_pathways[n])

\* MorphConfig.assign_model_pathways: the model pathways, as a list
assign_model_pathways(user_pathways) ==
    ListOfSet(ModelPathwaysOf(user_pathways, Len(user_pathways)))

\* A Python dict: its keys in the order of their first insertion.
EmptyDict == [keys |-> <<>>, items |-> <<>>]

DictSet(d, k, v) ==
    [keys |-> IF k \in RangeOf(d.keys) THEN d.keys ELSE Append(d.keys, k),
     items |-> [x \in (DOMAIN d.items) \cup {k} |-> IF x = k THEN v ELSE d.items[x]]]

HasKey(d, k) == k \in RangeOf(d.keys)

---------------------------------------------------------------------------
(* State *)

VARIABLES
    proc,      \* the procedure last called on its own, "none" before a call
    args,      \* its arguments
    result,    \* what it returned
    raised     \* the exception it raised, "" when it returned

VARIABLES
    solar_pc,        \* "start", "built", "persistence" or "row"
    sun_hours,       \* the sunrise and sunset hours the markers were built from
    sunrise_sunset,  \* the marker array of build_sunrise_sunset
    clearness,       \* the hourly clearness handed to the persistence functions
    row,             \* the row persistence_sunrise_sunset was called for
    persist          \* what persistence or persistence_sunrise_sunset gave

VARIABLES
    epw,             \* the Epw object morph_epw works on: dataframe and comments
    original,        \* the dataframe as read from the weather file
    before,          \* the Epw object as it was when the running call started
    user_variables,  \* the list of requested variables
    model_data,      \* the model variables compiled in model_data_dict
    pathway,         \* the pathway of the running call
    morph_pc,        \* "config", "idle", "loop", "write", "done" or "raised"
    pos,             \* the position of the loop in user_variables
    morphed_dict,    \* the dict of morphed columns
    reads,           \* the present-day columns the running call has read
    called,          \* the procedures the running call has called, in order
    error,           \* the exception that ended the call
    calls            \* the number of calls of morph_epw so far

VARIABLES
    cache_files,     \* the files of CACHE_DIR: per cache key its size, mtime and content
    cache_clock,     \* the time of the last write into CACHE_DIR
    cache_pc,        \* where the running cache operation of this process is
    cache_op,        \* the running or last cache operation of this process
    cache_prev,      \* the operation before a get
    cache_result,    \* what the last get returned: a dataset or "None"
    cache_raised,    \* the exception that left the last operation, "" if none
    pending,         \* the cleanup's list of files that its loop has not reached
    total_size_mb,   \* the cleanup's running total
    removed,         \* the files the cleanup of the last save has removed, in order
    interfered       \* whether another process has touched CACHE_DIR

procVars == <<proc, args, result, raised>>
morphVars == <<epw, original, before, user_variables, model_data, pathway, morph_pc, pos, morphed_dict, reads, called, error, calls>>
solarVars == <<solar_pc, sun_hours, sunrise_sunset, clearness, row, persist>>

cacheVars == <<cache_files, cache_clock, cache_pc, cache_op, cache_prev, cache_result, cache_raised, pending, total_size_mb, removed, interfered>>

vars == <<procVars, solarVars, morphVars, cacheVars>>

---------------------------------------------------------------------------
(* Inputs of the procedures: a present-day series has a level per month    *)
(* and climbs by a step per hour of the day; a climatology has a value per *)
(* month.                                                                  *)

Profile(name, dtype, level, step) ==
    Series(name, dtype, ts_8760,
           [i \in Rows |-> Num(level[MonthOf(i)] + step * HourOf(i))])

\* A sky-cover series: whole tenths in 0..10.
CoverProfile(name, dtype, level, step) ==
    Series(name, dtype, ts_8760,
           [i \in Rows |-> Clip(level[MonthOf(i)] + step * HourOf(i), 0, 10)])

Climatology(value) == [m \in Months |-> Num(value[m])]

\* The monthly values in which the first month has one value of S and the
\* later months share another.
Monthly(S) == {[m \in Months |-> IF m = 1 THEN first ELSE later] : first \in S, later \in S}

RelhumLevels == {0, 4000, 9500}
RelhumSteps == {0, 250}
HussValues == {2, 3}

PslLevels == {9800000, 10100000}
PslSteps == {0, 1050}
PslValues == {10000000, 10100000}

WspdLevels == {0, 320, 500}
WspdSteps == {0, 75}
\* (uas, vas) pairs whose speed is a whole number: 4, 5 and 8 m/s.
WindPairs == {<<0, 4>>, <<3, 4>>, <<0, 8>>}

GlohorLevels == {0, 1000, 10000, 15000, 20000}
GlohorSteps == {0, 5000}
RsdsValues == {15000, 17000}

TscLevels == {0, 5, 9}
TscSteps == {0, 1}
CltValues == {20, 45, 70}

DbtLevels == {-500, 0, 1000}
DbtSteps == {0, 300}
TasValues == {1000, 1200}
TasmaxDeltas == {0, 300}
TasminDeltas == {0, 100}

ProcIdle ==
    /\ proc = "none"
    /\ args = [none |-> TRUE]
    /\ result = [none |-> TRUE]
    /\ raised = ""

SolarIdle ==
    /\ solar_pc = "start"
    /\ sun_hours = <<>>
    /\ sunrise_sunset = <<>>
    /\ clearness = <<>>
    /\ row = 0
    /\ persist = [raised |-> "", values |-> <<>>]

NoError == [type |-> "", key |-> "", at |-> ""]

\* The weather file: a level per month and a step per hour of the day in
\* each of the columns that morph_epw reads or writes.
EpwFile ==
    [drybulb_C |-> Profile("drybulb_C", "float64", [m \in Months |-> 500 * m], 300).values,
     dewpoint_C |-> Profile("dewpoint_C", "float64", [m \in Months |-> 200 * m], 100).values,
     relhum_percent |-> Profile("relhum_percent", "float64", [m \in Months |-> 4000 + 2000 * m], 250).values,
     atmos_Pa |-> Profile("atmos_Pa", "float64", [m \in Months |-> 10130000], 0).values,
     exthorrad_Whm2 |-> Profile("exthorrad_Whm2", "float64", [m \in Months |-> 20000], 10000).values,
     glohorrad_Whm2 |-> Profile("glohorrad_Whm2", "float64", [m \in Months |-> 10000], 5000).values,
     dirnorrad_Whm2 |-> Profile("dirnorrad_Whm2", "float64", [m \in Months |-> 8000], 2000).values,
     difhorrad_Whm2 |-> Profile("difhorrad_Whm2", "float64", [m \in Months |-> 2000], 1000).values,
     windspd_ms |-> Profile("windspd_ms", "float64", [m \in Months |-> 500], 75).values,
     totskycvr_tenths |-> CoverProfile("totskycvr_tenths", "int64", [m \in Months |-> 4 + m], 1).values,
     opaqskycvr_tenths |-> CoverProfile("opaqskycvr_tenths", "int64", [m \in Months |-> 2 + m], 1).values]

\* Epw.__init__ and Epw.read
Epw(file) == [dataframe |-> file, comments |-> <<>>]

MorphIdle ==
    /\ epw = Epw(EpwFile)
    /\ original = EpwFile
    /\ before = Epw(EpwFile)
    /\ user_variables = <<>>
    /\ model_data = {}
    /\ pathway = ""
    /\ morph_pc = "config"
    /\ pos = 0
    /\ morphed_dict = EmptyDict
    /\ reads = {}
    /\ called = <<>>
    /\ error = NoError
    /\ calls = 0

---------------------------------------------------------------------------
(* tools/cache.py: the files of CACHE_DIR *)

CACHE_MAX_SIZE_MB == 50

Sources == {"ACCESS-CM2", "MIROC6"}

\* name.lower().replace("-", "")
lower_nodash(name) ==
    IF name = "ACCESS-CM2" THEN "accesscm2"
    ELSE IF name = "MIROC6" THEN "miroc6"
    ELSE name

\* The place of a source name in Python's order of strings.
SortRank(name) == IF name = "ACCESS-CM2" THEN 1 ELSE 2

\* sorted(source_id), for a list without repeats
sorted(source_id) ==
    [i \in 1..Len(source_id) |->
        CHOOSE x \in RangeOf(source_id) :
            Cardinality({y \in RangeOf(source_id) : SortRank(y) < SortRank(x)}) = i - 1]

\* _get_cache_key and _get_coordinate_cache_key: the parts of the key; the
\* key of coordinate data starts with "coordinate".
get_cache_key(kind, experiment_id, variable_id, source_id) ==
    [prefix |-> IF kind = "coordinate" THEN "coordinate" ELSE "experiment",
     experiment |-> experiment_id,
     variable |-> variable_id,
     sources |-> [i \in 1..Len(source_id) |-> lower_nodash(sorted(source_id)[i])]]

\* The key parameters of the calls.
CacheParams ==
    [kind : {"access"}, experiment_id : {"ssp126"}, variable_id : {"tas"},
     source_id : {<<"ACCESS-CM2", "MIROC6">>, <<"MIROC6", "ACCESS-CM2">>}]
    \cup [kind : {"coordinate"}, experiment_id : {"ssp126"}, variable_id : {"tas"},
          source_id : {<<"MIROC6">>}]

KeyOf(p) == get_cache_key(p.kind, p.experiment_id, p.variable_id, p.source_id)

CacheKeys == {KeyOf(p) : p \in CacheParams}

\* The datasets that are saved and their pickled sizes in MB.
Datasets == {"dataset 1", "dataset 2"}
SizesMb == {20, 30, 60}

NoFile == [exists |-> FALSE, size_mb |-> 0, mtime |-> 0, content |-> ""]

NoOp == [name |-> "none", params |-> <<>>, data |-> "", written |-> FALSE]

\* _get_cache_files_with_stats: (filepath, size_mb, mtime) of every file
files_with_stats(files) ==
    {[key |-> k, size_mb |-> files[k].size_mb, mtime |-> files[k].mtime] :
        k \in {c \in CacheKeys : files[c].exists}}

\* sum(size for _, size, _ in cache_files)
TotalSize(files) ==
    SumOver([k \in CacheKeys |-> files[k].size_mb], {c \in CacheKeys : files[c].exists})

CacheIdle ==
    /\ cache_files = [k \in CacheKeys |-> NoFile]
    /\ cache_clock = 0
    /\ cache_pc = "idle"
    /\ cache_op = NoOp
    /\ cache_prev = NoOp
    /\ cache_result = "None"
    /\ cache_raised = ""
    /\ pending = {}
    /\ total_size_mb = 0
    /\ removed = <<>>
    /\ interfered = FALSE

Init == ProcIdle /\ SolarIdle /\ MorphIdle /\ CacheIdle

Call_morph_dbt_year ==
    /\ proc = "none"
    /\ UNCHANGED <<solarVars, morphVars, cacheVars>>
    /\ \E level \in Monthly(DbtLevels), step \in DbtSteps,
          tas \in Monthly(TasValues), dmax \in TasmaxDeltas, dmin \in TasminDeltas :
        LET present == Profile("drybulb_C", "float64", level, step)
            baseline == Climatology([m \in Months |-> 1000])
            future_tas == Climatology(tas)
            future_tasmax == Climatology([m \in Months |-> 1000 + dmax])
            future_tasmin == Climatology([m \in Months |-> 1000 + dmin * m])
        IN  /\ proc' = "morph_dbt_year"
            /\ args' = [present |-> present, future_tas |-> future_tas,
                        baseline_tas |-> baseline, future_tasmax |-> future_tasmax,
                        baseline_tasmax |-> baseline, future_tasmin |-> future_tasmin,
                        baseline_tasmin |-> baseline]
            /\ result' = morph_dbt_year(present, future_tas, baseline, future_tasmax,
                                        baseline, future_tasmin, baseline)
            /\ raised' = ""

Call_morph_relhum ==
    /\ proc = "none"
    /\ UNCHANGED <<solarVars, morphVars, cacheVars>>
    /\ \E level \in Monthly(RelhumLevels), step \in RelhumSteps,
          fut \in Monthly(HussValues), base \in Monthly(HussValues) :
        LET present == Profile("relhum_percent", "float64", level, step)
        IN  /\ proc' = "morph_relhum"
            /\ args' = [present |-> present, future |-> Climatology(fut),
                        baseline |-> Climatology(base)]
            /\ result' = morph_relhum(present, Climatology(fut), Climatology(base))
            /\ raised' = ""

Call_morph_psl ==
    /\ proc = "none"
    /\ UNCHANGED <<solarVars, morphVars, cacheVars>>
    /\ \E level \in Monthly(PslLevels), step \in PslSteps,
          fut \in Monthly(PslValues), base \in Monthly(PslValues) :
        LET present == Profile("atmos_Pa", "float64", level, step)
        IN  /\ proc' = "morph_psl"
            /\ args' = [present |-> present, future |-> Climatology(fut),
                        baseline |-> Climatology(base)]
            /\ result' = morph_psl(present, Climatology(fut), Climatology(base))
            /\ raised' = ""

Call_morph_wspd ==
    /\ proc = "none"
    /\ UNCHANGED <<solarVars, morphVars, cacheVars>>
    /\ \E level \in Monthly(WspdLevels), step \in WspdSteps,
          fut \in Monthly(WindPairs), base \in Monthly(WindPairs) :
        LET present == Profile("windspd_ms", "float64", level, step)
            future_uas == Climatology([m \in Months |-> fut[m][1]])
            future_vas == Climatology([m \in Months |-> fut[m][2]])
            baseline_uas == Climatology([m \in Months |-> base[m][1]])
            baseline_vas == Climatology([m \in Months |-> base[m][2]])
        IN  /\ proc' = "morph_wspd"
            /\ args' = [present |-> present, future_vas |-> future_vas,
                        baseline_vas |-> baseline_vas, future_uas |-> future_uas,
                        baseline_uas |-> baseline_uas]
            /\ result' = morph_wspd(present, future_vas, baseline_vas,
                                    future_uas, baseline_uas)
            /\ raised' = ""

Call_morph_glohor ==
    /\ proc = "none"
    /\ UNCHANGED <<solarVars, morphVars, cacheVars>>
    /\ \E level \in Monthly(GlohorLevels), step \in GlohorSteps,
          fut \in Monthly(RsdsValues), base \in Monthly(RsdsValues) :
        LET present == Profile("glohorrad_Whm2", "float64", level, step)
            fails == morph_glohor_raises(present, Climatology(fut), Climatology(base))
        IN  /\ proc' = "morph_glohor"
            /\ args' = [present |-> present, future |-> Climatology(fut),
                        baseline |-> Climatology(base)]
            /\ result' = IF fails THEN [none |-> TRUE]
                         ELSE morph_glohor(present, Climatology(fut), Climatology(base))
            /\ raised' = IF fails THEN "ZeroDivisionError" ELSE ""

Call_calc_tsc ==
    /\ proc = "none"
    /\ UNCHANGED <<solarVars, morphVars, cacheVars>>
    /\ \E level \in Monthly(TscLevels), step \in TscSteps,
          fut \in Monthly(CltValues), base \in Monthly(CltValues) :
        LET present == CoverProfile("totskycvr_tenths", "int64", level, step)
        IN  /\ proc' = "calc_tsc"
            /\ args' = [present |-> present, future |-> Climatology(fut),
                        baseline |-> Climatology(base)]
            /\ result' = calc_tsc(present, Climatology(fut), Climatology(base))
            /\ raised' = ""

Call_calc_osc ==
    /\ proc = "none"
    /\ UNCHANGED <<solarVars, morphVars, cacheVars>>
    /\ \E level \in Monthly(TscLevels), step \in TscSteps,
          dtype \in {"int64", "float64"}, opaque \in {0, 1},
          fut \in CltValues, base \in CltValues :
        LET present_tsc == CoverProfile("totskycvr_tenths", dtype, level, step)
            present_osc == CoverProfile("opaqskycvr_tenths", dtype,
                                        [m \in Months |-> level[m] * opaque], 0)
            morphed_tsc == calc_tsc(present_tsc, Climatology([m \in Months |-> fut]),
                                    Climatology([m \in Months |-> base])).values
            fails == calc_osc_raises(morphed_tsc, present_osc, present_tsc)
        IN  /\ proc' = "calc_osc"
            /\ args' = [morphed_tsc |-> morphed_tsc, present_osc |-> present_osc,
                        present_tsc |-> present_tsc]
            /\ result' = IF fails THEN <<>>
                         ELSE calc_osc(morphed_tsc, present_osc, present_tsc)
            /\ raised' = IF fails THEN "UFuncTypeError" ELSE ""

\* The caller drops the result; the next call starts afresh.
Return ==
    /\ proc # "none"
    /\ proc' = "none"
    /\ args' = [none |-> TRUE]
    /\ result' = [none |-> TRUE]
    /\ raised' = ""
    /\ UNCHANGED <<solarVars, morphVars, cacheVars>>

NextProc ==
    \/ Call_morph_dbt_year
    \/ Call_morph_relhum
    \/ Call_morph_psl
    \/ Call_morph_wspd
    \/ Call_morph_glohor
    \/ Call_calc_tsc
    \/ Call_calc_osc
    \/ Return

SpecProc == Init /\ [][NextProc]_vars

---------------------------------------------------------------------------
(* The utilities and the configuration, called on their own *)

DataTypes == {"list", "ndarray", "Series", "tuple"}

DataSeeds == {1, 2, 3}

\* Some values for a month-keyed or day-keyed mapping.
DataOf(type, n, seed) == [type |-> type, items |-> [i \in 1..n |-> Num(seed * i - 2)]]

Call_zip_month_data ==
    /\ proc = "none"
    /\ \E type \in DataTypes, seed \in DataSeeds, n \in 0..(NumMonths + 2) :
        /\ args' = [data |-> DataOf(type, n, seed)]
        /\ result' = zip_month_data(tolist(DataOf(type, n, seed)))
    /\ proc' = "zip_month_data"
    /\ raised' = ""
    /\ UNCHANGED <<solarVars, morphVars, cacheVars>>

Call_zip_day_data ==
    /\ proc = "none"
    /\ \E type \in DataTypes, seed \in DataSeeds, n \in (YearDays - 2)..(YearDays + 2) :
        /\ args' = [data |-> DataOf(type, n, seed)]
        /\ result' = zip_day_data(tolist(DataOf(type, n, seed)))
    /\ proc' = "zip_day_data"
    /\ raised' = ""
    /\ UNCHANGED <<solarVars, morphVars, cacheVars>>

\* The values the primitive transforms are tried on: whole, fractional,
\* negative and zero.
Floats == {Ratio(n, d) : n \in {-3, 0, 1, 5}, d \in {1, 2}}

\* An array of two values, transformed elementwise.
Call_shift ==
    /\ proc = "none"
    /\ \E x \in Floats, y \in Floats, d \in Floats :
        /\ args' = [present |-> <<x, y>>, delta |-> d]
        /\ result' = [i \in 1..2 |-> shift(<<x, y>>[i], d)]
    /\ proc' = "shift"
    /\ raised' = ""
    /\ UNCHANGED <<solarVars, morphVars, cacheVars>>

Call_stretch ==
    /\ proc = "none"
    /\ \E x \in Floats, y \in Floats, f \in Floats :
        /\ args' = [present |-> <<x, y>>, stretch_factor |-> f]
        /\ result' = [i \in 1..2 |-> stretch(<<x, y>>[i], f)]
    /\ proc' = "stretch"
    /\ raised' = ""
    /\ UNCHANGED <<solarVars, morphVars, cacheVars>>

Call_shift_stretch ==
    /\ proc = "none"
    /\ \E x \in Floats, d \in Floats, f \in Floats, m \in Floats :
        /\ args' = [present |-> <<x>>, delta |-> d, scaling_factor |-> f, temporal_mean |-> m]
        /\ result' = <<shift_stretch(x, d, f, m)>>
    /\ proc' = "shift_stretch"
    /\ raised' = ""
    /\ UNCHANGED <<solarVars, morphVars, cacheVars>>

\* The lists of requested variables given to MorphConfig: up to MaxVars
\* names, recognised or not, repeated or not.
ConfigVariableLists ==
    UNION {[1..n -> UserVariables \cup {"Precipitation"}] : n \in 0..MaxVars}

ConfigPathwayLists ==
    {<<>>, <<"Best Case Scenario">>, <<"Invalid Pathway">>,
     <<"Best Case Scenario", "Worst Case Scenario">>,
     <<"Middle of the Road", "Invalid Pathway">>,
     <<"Worst Case Scenario", "Worst Case Scenario">>}

\* MorphConfig(...): the model selections derived on construction.
Call_MorphConfig ==
    /\ proc = "none"
    /\ \E l \in ConfigVariableLists, p \in ConfigPathwayLists :
        /\ args' = [user_variables |-> l, user_pathways |-> p]
        /\ result' = [model_variables |-> ListOfSet(ModelVariablesOf(l, Len(l))),
                      model_pathways |-> assign_model_pathways(p)]
    /\ proc' = "MorphConfig"
    /\ raised' = ""
    /\ UNCHANGED <<solarVars, morphVars, cacheVars>>

Years == {2000, 2023, 2024, 2100}

\* No time zone; one without daylight saving time; one with daylight saving
\* time in the middle of the year; and one that went ahead in 2022 and stayed.
TimeZones ==
    {NoTz,
     [name |-> "UTC", ahead_from |-> 0, ahead_until |-> 0],
     [name |-> "Europe/Zurich", ahead_from |-> HoursPerDay + 1, ahead_until |-> YearHours - HoursPerDay],
     [name |-> "Asia/Amman", ahead_from |-> HoursPerDay + 1, ahead_until |-> 2 * YearHours]}

Call_ts_8760 ==
    /\ proc = "none"
    /\ \E year \in Years, tz \in TimeZones :
        /\ args' = [year |-> year, tz |-> tz]
        /\ result' = ts_8760_year_tz(year, tz)
    /\ proc' = "ts_8760"
    /\ raised' = ""
    /\ UNCHANGED <<solarVars, morphVars, cacheVars>>

\* The zones whose clocks run in 2019 as TimeZones describes them.
GeometryZones == {tz \in TimeZones : tz.name \in {"UTC", "Europe/Zurich"}}

Call_solar_geometry ==
    /\ proc = "none"
    /\ \E tz \in GeometryZones :
        /\ args' = [tz |-> tz]
        /\ result' = solar_geometry_hour(tz)
    /\ proc' = "solar_geometry"
    /\ raised' = ""
    /\ UNCHANGED <<solarVars, morphVars, cacheVars>>

NextTools ==
    \/ Call_zip_month_data
    \/ Call_zip_day_data
    \/ Call_shift
    \/ Call_stretch
    \/ Call_shift_stretch
    \/ Call_MorphConfig
    \/ Call_ts_8760
    \/ Call_solar_geometry
    \/ Return

SpecTools == Init /\ [][NextTools]_vars

---------------------------------------------------------------------------
(* The solar markers and the persistence of clearness *)

HoursOfDay == 0..(HoursPerDay - 1)

\* Sunrise no later than sunset, or a day with neither.
SunPairs ==
    {<<r, t>> \in HoursOfDay \X HoursOfDay : r <= t} \cup {<<NoHour, NoHour>>}

\* The days of the first month have one pair of hours, the later days another.
SunHours(first, later) ==
    [sunrise |-> [d \in 1..YearDays |-> IF d <= DaysPerMonth THEN first[1] ELSE later[1]],
     sunset  |-> [d \in 1..YearDays |-> IF d <= DaysPerMonth THEN first[2] ELSE later[2]]]

ClearnessSeeds == {1, 2, 3}

\* An hourly clearness that differs from hour to hour.
ClearnessProfile(seed) == [i \in Rows |-> Ratio((i * seed) % 5, 4)]

Call_build_sunrise_sunset ==
    /\ solar_pc = "start"
    /\ \E first \in SunPairs, later \in SunPairs :
        /\ sun_hours' = SunHours(first, later)
        /\ sunrise_sunset' = build_sunrise_sunset(SunHours(first, later).sunrise,
                                                  SunHours(first, later).sunset)
    /\ solar_pc' = "built"
    /\ UNCHANGED <<clearness, row, persist>>
    /\ UNCHANGED <<procVars, morphVars, cacheVars>>

Call_persistence ==
    /\ solar_pc = "built"
    /\ \E seed \in ClearnessSeeds :
        /\ clearness' = ClearnessProfile(seed)
        /\ persist' = persistence(ClearnessProfile(seed), sunrise_sunset)
    /\ solar_pc' = "persistence"
    /\ UNCHANGED <<sun_hours, sunrise_sunset, row>>
    /\ UNCHANGED <<procVars, morphVars, cacheVars>>

\* The row function called as its docstring describes: with the whole array.
Call_persistence_sunrise_sunset ==
    /\ solar_pc = "built"
    /\ \E seed \in ClearnessSeeds, row_number \in 0..(YearHours - 1) :
        LET r == persistence_sunrise_sunset(Array(ClearnessProfile(seed)),
                                            sunrise_sunset[row_number + 1], row_number)
        IN  /\ clearness' = ClearnessProfile(seed)
            /\ row' = row_number
            /\ persist' = [raised |-> r.raised, values |-> <<r.value>>]
    /\ solar_pc' = "row"
    /\ UNCHANGED <<sun_hours, sunrise_sunset>>
    /\ UNCHANGED <<procVars, morphVars, cacheVars>>

SolarReturn ==
    /\ solar_pc \in {"persistence", "row"}
    /\ solar_pc' = "built"
    /\ clearness' = <<>>
    /\ row' = 0
    /\ persist' = [raised |-> "", values |-> <<>>]
    /\ UNCHANGED <<sun_hours, sunrise_sunset>>
    /\ UNCHANGED <<procVars, morphVars, cacheVars>>

NextSolar ==
    \/ Call_build_sunrise_sunset
    \/ Call_persistence
    \/ Call_persistence_sunrise_sunset
    \/ SolarReturn

SpecSolar == Init /\ [][NextSolar]_vars

---------------------------------------------------------------------------
(* morph_epw *)

Pathways == {"ssp126", "ssp585"}

\* The lists of requested variables: up to MaxVars variables, none twice.
UserVariableLists ==
    UNION {{l \in [1..n -> UserVariables] : \A i, j \in 1..n : l[i] = l[j] => i = j} : n \in 1..MaxVars}

\* The monthly climatology of a model variable in the compiled model data:
\* the value of the first month, and what each later month adds.
ModelClimatology(experiment, variable) ==
    LET first ==
            IF variable = "tas" THEN [historical |-> 1000, ssp126 |-> 1100, ssp585 |-> 1400]
            ELSE IF variable = "tasmax" THEN [historical |-> 1500, ssp126 |-> 1700, ssp585 |-> 2100]
            ELSE IF variable = "tasmin" THEN [historical |-> 500, ssp126 |-> 550, ssp585 |-> 800]
            ELSE IF variable = "huss" THEN [historical |-> 10, ssp126 |-> 11, ssp585 |-> 12]
            ELSE IF variable = "psl" THEN [historical |-> 10000000, ssp126 |-> 10100000, ssp585 |-> 10200000]
            ELSE IF variable = "uas" THEN [historical |-> 3, ssp126 |-> 6, ssp585 |-> 9]
            ELSE IF variable = "vas" THEN [historical |-> 4, ssp126 |-> 8, ssp585 |-> 12]
            ELSE IF variable = "rsds" THEN [historical |-> 15000, ssp126 |-> 16000, ssp585 |-> 17000]
            ELSE [historical |-> 50, ssp126 |-> 60, ssp585 |-> 75]
        monthly ==
            IF variable \in {"tas", "tasmax", "tasmin"}
            THEN [historical |-> 0, ssp126 |-> 50, ssp585 |-> 100]
            ELSE [historical |-> 0, ssp126 |-> 0, ssp585 |-> 0]
    IN  [m \in Months |-> Num(first[experiment] + monthly[experiment] * (m - 1))]

\* assemble.calc_model_climatologies: the baseline and the future monthly
\* means of one model variable.
calc_model_climatologies(future_experiment, variable) ==
    <<ModelClimatology("historical", variable), ModelClimatology(future_experiment, variable)>>

\* A lookup that finds every model variable.
MissingVariableNone(needed) == ""

\* The first of the model variables that model_data_dict has no entry for.
MissingVariable(needed) ==
    IF \A i \in DOMAIN needed : needed[i] \in model_data THEN ""
    ELSE needed[CHOOSE i \in DOMAIN needed :
                    /\ needed[i] \notin model_data
                    /\ \A j \in 1..(i - 1) : needed[j] \in model_data]

\* dataframe[column], a Series on the hours of the year
ColumnOf(dataframe, column, dtype) == Series(column, dtype, ts_8760, dataframe[column])

\* epw_object.dataframe[column]
Column(column, dtype) == ColumnOf(epw.dataframe, column, dtype)

\* The dry-bulb temperature of a dataframe, morphed for a pathway.
MorphedDbtOf(dataframe, future_experiment) ==
    LET tas == calc_model_climatologies(future_experiment, "tas")
        tmax == calc_model_climatologies(future_experiment, "tasmax")
        tmin == calc_model_climatologies(future_experiment, "tasmin")
    IN  morph_dbt_year(ColumnOf(dataframe, "drybulb_C", "float64"),
                       tas[2], tas[1], tmax[2], tmax[1], tmin[2], tmin[1]).values

\* The relative humidity of a dataframe, morphed for a pathway.
MorphedRelhumOf(dataframe, future_experiment) ==
    LET huss == calc_model_climatologies(future_experiment, "huss")
    IN  morph_relhum(ColumnOf(dataframe, "relhum_percent", "float64"), huss[2], huss[1]).values

MorphedDbt == MorphedDbtOf(epw.dataframe, pathway)

MorphedRelhum == MorphedRelhumOf(epw.dataframe, pathway)

\* The loop goes on with the next requested variable, or ends.
Continue ==
    /\ pos' = pos + 1
    /\ morph_pc' = IF pos = Len(user_variables) THEN "write" ELSE "loop"
    /\ error' = NoError

\* An exception leaves morph_epw: nothing is written to the Epw object.
Fail(type, key) ==
    /\ morph_pc' = "raised"
    /\ error' = [type |-> type, key |-> key, at |-> user_variables[pos]]
    /\ UNCHANGED pos

Read(column) == [column |-> column, values |-> epw.dataframe[column]]

\* The sunrise and sunset hours at the location of the weather file.
LocationSunHours == SunHours(<<0, HoursPerDay - 1>>, <<1, 1>>)

\* The model variables that the caller's model data may lack.
LackingChoices == {{}, {"tasmin"}, {"huss"}, {"uas"}, {"clt"}}

\* MorphConfig: the requested variables, and the model data compiled for
\* them or lacking one of the model variables.
Configure ==
    /\ morph_pc = "config"
    /\ \E l \in UserVariableLists :
        /\ user_variables' = l
        /\ model_data' \in {assign_model_variables(l) \ lacking : lacking \in LackingChoices}
    /\ morph_pc' = "idle"
    /\ UNCHANGED <<epw, original, before, pathway, pos, morphed_dict, reads, called, error, calls>>
    /\ UNCHANGED <<procVars, solarVars, cacheVars>>

\* morph_epw is called with the path of the weather file, which it reads,
\* or with the Epw object of the caller.
Call_morph_epw ==
    /\ morph_pc \in {"idle", "done", "raised"}
    /\ calls < MaxCalls
    /\ \E p \in Pathways, epw_file \in {"str", "Epw"} :
        LET epw_object == IF epw_file = "str" THEN Epw(original) ELSE epw
        IN  /\ pathway' = p
            /\ epw' = epw_object
            /\ before' = epw_object
    /\ morphed_dict' = EmptyDict
    /\ reads' = {}
    /\ called' = <<>>
    /\ error' = NoError
    /\ pos' = 1
    /\ morph_pc' = IF user_variables = <<>> THEN "write" ELSE "loop"
    /\ calls' = calls + 1
    /\ UNCHANGED <<original, user_variables, model_data>>
    /\ UNCHANGED <<procVars, solarVars, cacheVars>>

Morph_Temperature ==
    /\ morph_pc = "loop"
    /\ user_variables[pos] = "Temperature"
    /\ IF HasKey(morphed_dict, "drybulb_C")
       THEN Continue /\ UNCHANGED <<morphed_dict, reads, called>>
       ELSE IF MissingVariable(<<"tas", "tasmax", "tasmin">>) # ""
       THEN /\ Fail("KeyError", MissingVariable(<<"tas", "tasmax", "tasmin">>))
            /\ UNCHANGED <<morphed_dict, reads, called>>
       ELSE /\ morphed_dict' = DictSet(morphed_dict, "drybulb_C", MorphedDbt)
            /\ reads' = reads \cup {Read("drybulb_C")}
            /\ called' = Append(called, "morph_dbt_year")
            /\ Continue
    /\ UNCHANGED <<epw, original, before, user_variables, model_data, pathway, calls>>
    /\ UNCHANGED <<procVars, solarVars, cacheVars>>

Morph_Humidity ==
    /\ morph_pc = "loop"
    /\ user_variables[pos] = "Humidity"
    /\ IF HasKey(morphed_dict, "relhum_percent")
       THEN Continue /\ UNCHANGED <<morphed_dict, reads, called>>
       ELSE IF MissingVariable(<<"huss">>) # ""
       THEN /\ Fail("KeyError", "huss")
            /\ UNCHANGED <<morphed_dict, reads, called>>
       ELSE /\ morphed_dict' = DictSet(morphed_dict, "relhum_percent", MorphedRelhum)
            /\ reads' = reads \cup {Read("relhum_percent")}
            /\ called' = Append(called, "morph_relhum")
            /\ Continue
    /\ UNCHANGED <<epw, original, before, user_variables, model_data, pathway, calls>>
    /\ UNCHANGED <<procVars, solarVars, cacheVars>>

Morph_DewPoint ==
    /\ morph_pc = "loop"
    /\ user_variables[pos] = "Dew Point"
    /\ IF HasKey(morphed_dict, "relhum_percent") /\ HasKey(morphed_dict, "drybulb_C")
       THEN /\ morphed_dict' = DictSet(morphed_dict, "dewpoint_C",
                    morph_dewpt(morphed_dict.items["drybulb_C"],
                                morphed_dict.items["relhum_percent"]).values)
            /\ called' = Append(called, "morph_dewpt")
            /\ UNCHANGED reads
            /\ Continue
       ELSE IF MissingVariable(<<"tas", "tasmax", "tasmin">>) # ""
       THEN /\ Fail("KeyError", MissingVariable(<<"tas", "tasmax", "tasmin">>))
            /\ UNCHANGED <<morphed_dict, reads, called>>
       ELSE IF MissingVariable(<<"huss">>) # ""
       THEN /\ Fail("KeyError", "huss")
            /\ reads' = reads \cup {Read("drybulb_C")}
            /\ called' = Append(called, "morph_dbt_year")
            /\ UNCHANGED morphed_dict
       ELSE LET with_dbt == IF "Temperature" \in RangeOf(user_variables)
                            THEN DictSet(morphed_dict, "drybulb_C", MorphedDbt)
                            ELSE morphed_dict
                with_relhum == IF "Humidity" \in RangeOf(user_variables)
                               THEN DictSet(with_dbt, "relhum_percent", MorphedRelhum)
                               ELSE with_dbt
            IN  /\ reads' = reads \cup {Read("drybulb_C"), Read("relhum_percent")}
                /\ IF ~HasKey(with_relhum, "drybulb_C")
                   THEN /\ Fail("KeyError", "drybulb_C")
                        /\ morphed_dict' = with_relhum
                        /\ called' = called \o <<"morph_dbt_year", "morph_relhum">>
                   ELSE IF ~HasKey(with_relhum, "relhum_percent")
                   THEN /\ Fail("KeyError", "relhum_percent")
                        /\ morphed_dict' = with_relhum
                        /\ called' = called \o <<"morph_dbt_year", "morph_relhum">>
                   ELSE /\ morphed_dict' = DictSet(with_relhum, "dewpoint_C",
                                morph_dewpt(with_relhum.items["drybulb_C"],
                                            with_relhum.items["relhum_percent"]).values)
                        /\ called' = called \o <<"morph_dbt_year", "morph_relhum", "morph_dewpt">>
                        /\ Continue
    /\ UNCHANGED <<epw, original, before, user_variables, model_data, pathway, calls>>
    /\ UNCHANGED <<procVars, solarVars, cacheVars>>

Morph_Pressure ==
    /\ morph_pc = "loop"
    /\ user_variables[pos] = "Pressure"
    /\ IF MissingVariable(<<"psl">>) # ""
       THEN /\ Fail("KeyError", "psl")
            /\ UNCHANGED <<morphed_dict, reads, called>>
       ELSE LET psl == calc_model_climatologies(pathway, "psl")
            IN  /\ morphed_dict' = DictSet(morphed_dict, "atmos_Pa",
                        morph_relhum(Column("atmos_Pa", "float64"), psl[2], psl[1]).values)
                /\ reads' = reads \cup {Read("atmos_Pa")}
                /\ called' = Append(called, "morph_relhum")
                /\ Continue
    /\ UNCHANGED <<epw, original, before, user_variables, model_data, pathway, calls>>
    /\ UNCHANGED <<procVars, solarVars, cacheVars>>

Morph_Wind ==
    /\ morph_pc = "loop"
    /\ user_variables[pos] = "Wind"
    /\ IF MissingVariable(<<"vas", "uas">>) # ""
       THEN /\ Fail("KeyError", MissingVariable(<<"vas", "uas">>))
            /\ UNCHANGED <<morphed_dict, reads, called>>
       ELSE LET vas == calc_model_climatologies(pathway, "vas")
                uas == calc_model_climatologies(pathway, "uas")
            IN  /\ morphed_dict' = DictSet(morphed_dict, "windspd_ms",
                        morph_wspd(Column("windspd_ms", "float64"),
                                   vas[2], vas[1], uas[2], uas[1]).values)
                /\ reads' = reads \cup {Read("windspd_ms")}
                /\ called' = Append(called, "morph_wspd")
                /\ Continue
    /\ UNCHANGED <<epw, original, before, user_variables, model_data, pathway, calls>>
    /\ UNCHANGED <<procVars, solarVars, cacheVars>>

\* The branch hands calc_diffhor the values of the morphed global radiation,
\* an ndarray; were calc_diffhor to return, calc_osc would end the branch.
Morph_CloudsAndRadiation ==
    /\ morph_pc = "loop"
    /\ user_variables[pos] = "Clouds and Radiation"
    /\ IF MissingVariable(<<"rsds", "clt">>) # ""
       THEN /\ Fail("KeyError", MissingVariable(<<"rsds", "clt">>))
            /\ UNCHANGED <<morphed_dict, reads, called>>
       ELSE LET rsds == calc_model_climatologies(pathway, "rsds")
                clt == calc_model_climatologies(pathway, "clt")
                present_glohor == Column("glohorrad_Whm2", "float64")
            IN  IF morph_glohor_raises(present_glohor, rsds[2], rsds[1])
                THEN /\ Fail("ZeroDivisionError", "")
                     /\ reads' = reads \cup {Read("glohorrad_Whm2")}
                     /\ called' = Append(called, "morph_glohor")
                     /\ UNCHANGED morphed_dict
                ELSE LET morphed_glohor == morph_glohor(present_glohor, rsds[2], rsds[1]).values
                         diffhor == calc_diffhor(LocationSunHours.sunrise, LocationSunHours.sunset,
                                                 [kind |-> "ndarray", values |-> morphed_glohor],
                                                 epw.dataframe["exthorrad_Whm2"])
                     IN  /\ morphed_dict' = DictSet(morphed_dict, "glohorrad_Whm2", morphed_glohor)
                         /\ reads' = reads \cup {Read("glohorrad_Whm2"), Read("exthorrad_Whm2")}
                         /\ called' = called \o <<"morph_glohor", "calc_diffhor">>
                         /\ IF diffhor.raised # ""
                            THEN Fail(diffhor.raised, "")
                            ELSE Fail(IF calc_osc_raises(<<>>, Column("opaqskycvr_tenths", "int64"),
                                                         Column("totskycvr_tenths", "int64"))
                                      THEN "UFuncTypeError" ELSE "AttributeError", "")
    /\ UNCHANGED <<epw, original, before, user_variables, model_data, pathway, calls>>
    /\ UNCHANGED <<procVars, solarVars, cacheVars>>

\* The keys under which the branch of a requested variable stores its
\* morphed series in morphed_dict.
KeysStoredBy(variable) ==
    IF variable = "Temperature" THEN {"drybulb_C"}
    ELSE IF variable = "Humidity" THEN {"relhum_percent"}
    ELSE IF variable = "Dew Point" THEN {"dewpoint_C"}
    ELSE IF variable = "Pressure" THEN {"atmos_Pa"}
    ELSE IF variable = "Wind" THEN {"windspd_ms"}
    ELSE {"glohorrad_Whm2", "diffhorrad_Whm2", "dirnorrad_Whm2",
          "totskycvr_tenths", "opaqskycvr_tenths"}

\* A write-back that also runs when the loop was left by an exception.
WriteBackInFinally ==
    /\ morph_pc \in {"write", "raised"}
    /\ epw' = [dataframe |->
                   [c \in (DOMAIN epw.dataframe) \cup RangeOf(morphed_dict.keys) |->
                       IF HasKey(morphed_dict, c) THEN morphed_dict.items[c]
                       ELSE epw.dataframe[c]],
               comments |-> epw.comments \o
                   [n \in 1..Len(morphed_dict.keys) |-> <<morphed_dict.keys[n]>>]]
    /\ morph_pc' = "done"
    /\ UNCHANGED <<original, before, user_variables, model_data, pathway, pos, morphed_dict, reads, called, error, calls>>
    /\ UNCHANGED <<procVars, solarVars, cacheVars>>

\* The loop over morphed_dict.items() that ends morph_epw.
WriteBack ==
    /\ morph_pc = "write"
    /\ epw' = [dataframe |->
                   [c \in (DOMAIN epw.dataframe) \cup RangeOf(morphed_dict.keys) |->
                       IF HasKey(morphed_dict, c) THEN morphed_dict.items[c]
                       ELSE epw.dataframe[c]],
               comments |-> epw.comments \o
                   [n \in 1..Len(morphed_dict.keys) |->
                       IF n = 1 THEN <<"morphed for", pathway, morphed_dict.keys[n]>>
                       ELSE <<morphed_dict.keys[n]>>]]
    /\ morph_pc' = "done"
    /\ UNCHANGED <<original, before, user_variables, model_data, pathway, pos, morphed_dict, reads, called, error, calls>>
    /\ UNCHANGED <<procVars, solarVars, cacheVars>>

NextMorph ==
    \/ Configure
    \/ Call_morph_epw
    \/ Morph_Temperature
    \/ Morph_Humidity
    \/ Morph_DewPoint
    \/ Morph_Pressure
    \/ Morph_Wind
    \/ Morph_CloudsAndRadiation
    \/ WriteBack

SpecMorph == Init /\ [][NextMorph]_vars

---------------------------------------------------------------------------
(* The cache: save, cleanup and get of one process, and the other processes *)
(* that share CACHE_DIR                                                     *)

\* save_to_cache and save_coordinate_to_cache, up to the cleanup: the file
\* is opened for writing and the data pickled into it.  When the pickling
\* or the write fails, the file keeps what was written until then, the
\* error is printed and the call returns without the cleanup.
Call_save_to_cache ==
    /\ cache_pc = "idle"
    /\ cache_clock < MaxWrites
    /\ \E p \in CacheParams, data \in Datasets, size \in SizesMb :
        \E written \in {0, size}, ok \in BOOLEAN :
            /\ ok => written = size
            /\ cache_files' = [cache_files EXCEPT ![KeyOf(p)] =
                   [exists |-> TRUE, size_mb |-> written, mtime |-> cache_clock + 1,
                    content |-> IF ok THEN data ELSE "truncated"]]
            /\ cache_op' = [name |-> "save", params |-> p, data |-> data, written |-> ok]
            /\ cache_pc' = IF ok THEN "cleanup" ELSE "idle"
    /\ cache_clock' = cache_clock + 1
    /\ cache_prev' = NoOp
    /\ cache_result' = "None"
    /\ cache_raised' = ""
    /\ pending' = {}
    /\ total_size_mb' = 0
    /\ removed' = <<>>
    /\ UNCHANGED interfered
    /\ UNCHANGED <<procVars, solarVars, morphVars>>

\* _cleanup_cache_if_needed, up to its loop: the files and their total.
Cleanup_start ==
    /\ cache_pc = "cleanup"
    /\ IF TotalSize(cache_files) <= CACHE_MAX_SIZE_MB
       THEN /\ cache_pc' = "idle"
            /\ UNCHANGED <<pending, total_size_mb>>
       ELSE /\ cache_pc' = "cleanup_loop"
            /\ pending' = files_with_stats(cache_files)
            /\ total_size_mb' = TotalSize(cache_files)
    /\ UNCHANGED <<cache_files, cache_clock, cache_op, cache_prev, cache_result, cache_raised, removed, interfered>>
    /\ UNCHANGED <<procVars, solarVars, morphVars>>

\* One round of the loop over the files sorted by mtime.  unlink of a file
\* that is gone raises FileNotFoundError, which the except of the save
\* catches: the cleanup ends there.
Cleanup_step ==
    /\ cache_pc = "cleanup_loop"
    /\ IF total_size_mb <= CACHE_MAX_SIZE_MB \/ pending = {}
       THEN /\ cache_pc' = "idle"
            /\ pending' = {}
            /\ total_size_mb' = 0
            /\ UNCHANGED <<cache_files, removed>>
       ELSE LET f == CHOOSE x \in pending : \A y \in pending : x.mtime <= y.mtime
            IN  IF ~cache_files[f.key].exists
                THEN /\ cache_pc' = "idle"
                     /\ pending' = {}
                     /\ total_size_mb' = 0
                     /\ UNCHANGED <<cache_files, removed>>
                ELSE /\ cache_files' = [cache_files EXCEPT ![f.key] = NoFile]
                     /\ total_size_mb' = total_size_mb - f.size_mb
                     /\ pending' = pending \ {f}
                     /\ removed' = Append(removed,
                            [key |-> f.key,
                             older_remains |-> \E k \in CacheKeys :
                                 cache_files[k].exists /\ cache_files[k].mtime < cache_files[f.key].mtime,
                             within_limit |-> TotalSize(cache_files) <= CACHE_MAX_SIZE_MB])
                     /\ UNCHANGED cache_pc
    /\ UNCHANGED <<cache_clock, cache_op, cache_prev, cache_result, cache_raised, interfered>>
    /\ UNCHANGED <<procVars, solarVars, morphVars>>

\* get_cached_data and get_cached_coordinate_data, up to the test that the
\* file exists.
Call_get_cached_data ==
    /\ cache_pc = "idle"
    /\ \E p \in CacheParams :
        /\ cache_op' = [name |-> "get", params |-> p, data |-> "", written |-> FALSE]
        /\ cache_pc' = IF cache_files[KeyOf(p)].exists THEN "get_read" ELSE "idle"
    /\ cache_prev' = cache_op
    /\ cache_result' = "None"
    /\ cache_raised' = ""
    /\ removed' = <<>>
    /\ UNCHANGED <<cache_files, cache_clock, pending, total_size_mb, interfered>>
    /\ UNCHANGED <<procVars, solarVars, morphVars>>

\* open and pickle.load.  A file that is gone raises FileNotFoundError and
\* damaged bytes UnpicklingError, which the except catches; a file that ends
\* early raises EOFError, which is neither an IOError nor a PickleError.
Get_read ==
    /\ cache_pc = "get_read"
    /\ LET file == cache_files[KeyOf(cache_op.params)]
       IN  IF ~file.exists \/ file.content = "corrupted"
           THEN /\ cache_pc' = "get_unlink"
                /\ UNCHANGED <<cache_result, cache_raised>>
           ELSE IF file.content = "truncated"
           THEN /\ cache_pc' = "idle"
                /\ cache_raised' = "EOFError"
                /\ UNCHANGED cache_result
           ELSE /\ cache_pc' = "idle"
                /\ cache_result' = file.content
                /\ UNCHANGED cache_raised
    /\ UNCHANGED <<cache_files, cache_clock, cache_op, cache_prev, pending, total_size_mb, removed, interfered>>
    /\ UNCHANGED <<procVars, solarVars, morphVars>>

\* The except clause: cache_filepath.unlink() and return None.
Get_unlink ==
    /\ cache_pc = "get_unlink"
    /\ IF cache_files[KeyOf(cache_op.params)].exists
       THEN /\ cache_files' = [cache_files EXCEPT ![KeyOf(cache_op.params)] = NoFile]
            /\ UNCHANGED cache_raised
       ELSE /\ cache_raised' = "FileNotFoundError"
            /\ UNCHANGED cache_files
    /\ cache_pc' = "idle"
    /\ UNCHANGED <<cache_clock, cache_op, cache_prev, cache_result, pending, total_size_mb, removed, interfered>>
    /\ UNCHANGED <<procVars, solarVars, morphVars>>

\* Another process removes a file: its cleanup or its clear_cache.  The
\* runs have at most one step of another process.
Other_unlink ==
    /\ ~interfered
    /\ \E k \in CacheKeys :
        /\ cache_files[k].exists
        /\ cache_files' = [cache_files EXCEPT ![k] = NoFile]
    /\ interfered' = TRUE
    /\ UNCHANGED <<cache_clock, cache_pc, cache_op, cache_prev, cache_result, cache_raised, pending, total_size_mb, removed>>
    /\ UNCHANGED <<procVars, solarVars, morphVars>>

\* Another process has opened a file to save into it and not yet written.
Other_save_opens ==
    /\ ~interfered
    /\ cache_clock < MaxWrites
    /\ \E k \in CacheKeys :
        cache_files' = [cache_files EXCEPT ![k] =
            [exists |-> TRUE, size_mb |-> 0, mtime |-> cache_clock + 1, content |-> "truncated"]]
    /\ cache_clock' = cache_clock + 1
    /\ interfered' = TRUE
    /\ UNCHANGED <<cache_pc, cache_op, cache_prev, cache_result, cache_raised, pending, total_size_mb, removed>>
    /\ UNCHANGED <<procVars, solarVars, morphVars>>

\* The bytes of a cache file are damaged on the disk.
Damage ==
    /\ ~interfered
    /\ \E k \in CacheKeys :
        /\ cache_files[k].exists
        /\ cache_files[k].content \in Datasets
        /\ cache_files' = [cache_files EXCEPT ![k].content = "corrupted"]
    /\ interfered' = TRUE
    /\ UNCHANGED <<cache_clock, cache_pc, cache_op, cache_prev, cache_result, cache_raised, pending, total_size_mb, removed>>
    /\ UNCHANGED <<procVars, solarVars, morphVars>>

NextCache ==
    \/ Call_save_to_cache
    \/ Cleanup_start
    \/ Cleanup_step
    \/ Call_get_cached_data
    \/ Get_read
    \/ Get_unlink
    \/ Other_unlink
    \/ Other_save_opens
    \/ Damage

SpecCache == Init /\ [][NextCache]_vars

---------------------------------------------------------------------------
(* Claims about the procedures, checked under SpecProc *)

\* Equality of two floats as numbers.
FEq(x, y) == x.d > 0 /\ y.d > 0 /\ x.n * y.d = y.n * x.d

\* The whole number whose square is u*u + v*v.
Speed(u, v) == CHOOSE r \in 0..(Abs(u.n) + Abs(v.n)) : r * r = u.n * u.n + v.n * v.n

\* C3: morph_wspd multiplies every hourly wind speed by future model speed /
\* baseline model speed of the hour's month, the speeds being hypot(u, v); so
\* a constant 5 m/s with model speeds 4 and 8 m/s gives 10 m/s at every hour.
C3_WspdStretchedBySpeedRatio ==
    proc = "morph_wspd" =>
        /\ raised = ""
        /\ \A i \in DOMAIN args.present.values :
            LET m == MonthOf(i)
                fut == Speed(args.future_uas[m], args.future_vas[m])
                base == Speed(args.baseline_uas[m], args.baseline_vas[m])
                x == args.present.values[i]
            IN  /\ result.values[i] = Num(RoundDiv(x.n * fut, x.d * base))
                /\ (x = Num(Hundredths(5)) /\ base = 4 /\ fut = 8)
                       => result.values[i] = Num(Hundredths(10))

\* C5: calc_osc returns one value per hour, morphed_tsc * (present_osc /
\* present_tsc), the ratio being 0 where present_tsc is 0, and never fails.
C5_OscIsScaledRatioPerHour ==
    proc = "calc_osc" =>
        /\ raised = ""
        /\ Len(result) = Len(args.present_osc.values)
        /\ \A i \in DOMAIN args.present_osc.values :
            IF args.present_tsc.values[i] = 0
            THEN result[i] = 0
            ELSE result[i] * args.present_tsc.values[i]
                     = args.morphed_tsc[i] * args.present_osc.values[i]

\* C6: with positive monthly stretch factors every value morph_relhum returns
\* lies in [1, 100].
C6_RelhumWithinRange ==
    (/\ proc = "morph_relhum"
     /\ \A m \in Months : args.future[m].n > 0 /\ args.baseline[m].n > 0)
    => \A i \in DOMAIN result.values :
            LET v == result.values[i]
            IN  /\ v.d > 0
                /\ Hundredths(1) * v.d <= v.n
                /\ v.n <= Hundredths(100) * v.d

\* A call of morph_relhum in which the stretched value of one hour is above
\* 100 and that of another is below 1.
C6_Witness ==
    /\ proc = "morph_relhum"
    /\ \E i, j \in DOMAIN args.present.values :
        LET fi == args.future[MonthOf(i)].n
            bi == args.baseline[MonthOf(i)].n
            fj == args.future[MonthOf(j)].n
            bj == args.baseline[MonthOf(j)].n
        IN  /\ args.present.values[i].n * fi > Hundredths(100) * bi
            /\ args.present.values[j].n * fj < Hundredths(1) * bj

\* The integer part, towards zero, of a tenth of d: the t of the sign of d
\* with 10 * |t| <= |d| < 10 * (|t| + 1).
TenthTruncated(d) ==
    CHOOSE t \in -Abs(d)..Abs(d) :
        /\ 10 * Abs(t) <= Abs(d)
        /\ Abs(d) < 10 * (Abs(t) + 1)
        /\ (t # 0 => Sign(t) = Sign(d))

C10_SameLengthAndIndex ==
    (/\ proc \in {"morph_dbt_year", "morph_relhum", "morph_psl", "morph_wspd",
                  "morph_glohor", "calc_tsc"}
     /\ raised = "")
    => /\ Len(result.values) = Len(args.present.values)
       /\ result.index = args.present.index

---------------------------------------------------------------------------
(* Claims about the solar markers and persistence, checked under SpecSolar *)

\* C8: persistence returns for every hour i: c[i] at FIRST_HOUR (1) and
\* LAST_HOUR (4), c[i+1] at SUNRISE (2), c[i-1] at SUNSET (3) and
\* (c[i-1] + c[i+1]) / 2 at OTHER (0); so its first and last values are
\* those of the clearness.
C8_PersistencePerMarker ==
    solar_pc = "persistence" =>
        /\ persist.raised = ""
        /\ Len(persist.values) = YearHours
        /\ persist.values[1] = clearness[1]
        /\ persist.values[YearHours] = clearness[YearHours]
        /\ \A i \in Rows :
            /\ sunrise_sunset[i] \in {1, 4} => persist.values[i] = clearness[i]
            /\ sunrise_sunset[i] = 2 => persist.values[i] = clearness[i + 1]
            /\ sunrise_sunset[i] = 3 => persist.values[i] = clearness[i - 1]
            /\ sunrise_sunset[i] = 0 =>
                   FEq(FMul(persist.values[i], Num(2)),
                       FAdd(clearness[i - 1], clearness[i + 1]))

\* C9: every marker is one of 0, 1, 2, 3, 4, also on a day whose sunrise and
\* sunset fall in the same clock hour; 1 occurs once, at index 0; 4 occurs
\* once, at the last index; a day has at most one SUNRISE and one SUNSET.
C9_MarkersAreTheFiveCodes ==
    solar_pc = "built" =>
        /\ \A i \in Rows : sunrise_sunset[i] \in 0..4
        /\ \A i \in Rows : sunrise_sunset[i] = 1 <=> i = 1
        /\ \A i \in Rows : sunrise_sunset[i] = 4 <=> i = YearHours
        /\ \A d \in 1..YearDays :
            /\ Cardinality({i \in Rows : DayOf(i) = d /\ sunrise_sunset[i] = 2}) <= 1
            /\ Cardinality({i \in Rows : DayOf(i) = d /\ sunrise_sunset[i] = 3}) <= 1

---------------------------------------------------------------------------
(* Claims about morph_epw, checked under SpecMorph *)

\* C1: when 'Pressure' is requested, morph_epw sets every hour's atmos_Pa to
\* the present-day value plus the absolute delta of the psl climatologies of
\* the hour's month, the result of morph_psl: no stretch, no clipping.
C1_PressureIsShifted ==
    (morph_pc = "done" /\ "Pressure" \in RangeOf(user_variables)) =>
        LET psl == calc_model_climatologies(pathway, "psl")
        IN  /\ epw.dataframe["atmos_Pa"] =
                   morph_psl(ColumnOf(before.dataframe, "atmos_Pa", "float64"),
                             psl[2], psl[1]).values
            /\ \A i \in Rows :
                   FEq(epw.dataframe["atmos_Pa"][i],
                       FAdd(before.dataframe["atmos_Pa"][i],
                            FSub(psl[2][MonthOf(i)], psl[1][MonthOf(i)])))

\* C2: for every list of requested variables that contains 'Dew Point', with
\* the model climatologies it needs, morph_epw does not fail on the dew
\* point, and dewpoint_C is computed from the dry-bulb temperature and the
\* relative humidity morphed in that call.
C2_DewPointCompletes ==
    ("Dew Point" \in RangeOf(user_variables)
        /\ assign_model_variables(user_variables) \subseteq model_data) =>
        /\ ~(morph_pc = "raised" /\ error.at = "Dew Point")
        /\ morph_pc = "done" =>
               epw.dataframe["dewpoint_C"] =
                   morph_dewpt(MorphedDbtOf(before.dataframe, pathway),
                               MorphedRelhumOf(before.dataframe, pathway)).values

\* C4: morph_epw treats the weather record as read-only: in every call the
\* present-day values it reads are those of the weather file, and the
\* dry-bulb temperature it returns is the morph of the file's.
C4_EpwIsReadOnly ==
    /\ \A r \in reads : r.values = original[r.column]
    /\ (morph_pc = "done" /\ "Temperature" \in RangeOf(user_variables)) =>
           epw.dataframe["drybulb_C"] = MorphedDbtOf(original, pathway)

\* The model variables whose climatologies the branch of a requested
\* variable looks up in the model data.
NeededBy(variable) ==
    IF variable = "Temperature" THEN {"tas", "tasmax", "tasmin"}
    ELSE IF variable = "Humidity" THEN {"huss"}
    ELSE IF variable = "Dew Point" THEN {"tas", "tasmax", "tasmin", "huss"}
    ELSE IF variable = "Pressure" THEN {"psl"}
    ELSE IF variable = "Wind" THEN {"vas", "uas"}
    ELSE {"rsds", "clt"}

\* The keys that the comments of the Epw object name as written.
WrittenKeys == {epw.comments[i][Len(epw.comments[i])] : i \in DOMAIN epw.comments}

\* C11: a failure while morphing one requested variable does not prevent the
\* morphing of the requested variables that do not depend on it: when the
\* call has failed at one variable, a requested wind speed or pressure whose
\* model climatologies are there is morphed and written all the same.
C11_FailureLeavesIndependentMorphed ==
    morph_pc = "raised" =>
        /\ ("Wind" \in RangeOf(user_variables) /\ error.at # "Wind"
                /\ NeededBy("Wind") \subseteq model_data) =>
               LET vas == calc_model_climatologies(pathway, "vas")
                   uas == calc_model_climatologies(pathway, "uas")
               IN  /\ "windspd_ms" \in WrittenKeys
                   /\ epw.dataframe["windspd_ms"] =
                          morph_wspd(ColumnOf(before.dataframe, "windspd_ms", "float64"),
                                     vas[2], vas[1], uas[2], uas[1]).values
        /\ ("Pressure" \in RangeOf(user_variables) /\ error.at # "Pressure"
                /\ NeededBy("Pressure") \subseteq model_data) =>
               "atmos_Pa" \in WrittenKeys

\* C12: when a requested variable needs a model climatology that the model
\* data lacks, morph_epw refuses to morph it and reports the model variable
\* that is missing: the call ends in a KeyError that names a missing model
\* variable of that requested variable with nothing written to the Epw
\* object, and the write-back is only reached when no requested variable
\* lacks a climatology.
C12_MissingClimatologyIsReported ==
    /\ morph_pc \in {"write", "done"} =>
           \A i \in DOMAIN user_variables : NeededBy(user_variables[i]) \subseteq model_data
    /\ (morph_pc = "raised" /\ ~(NeededBy(error.at) \subseteq model_data)) =>
           /\ error.type = "KeyError"
           /\ error.key \in NeededBy(error.at) \ model_data
           /\ epw = before

\* A call that ended on 'Dew Point' without huss, and one that ended on
\* 'Temperature' without tasmin.
C12_Witness ==
    /\ morph_pc = "raised"
    /\ \/ error = [type |-> "KeyError", key |-> "huss", at |-> "Dew Point"]
       \/ error = [type |-> "KeyError", key |-> "tasmin", at |-> "Temperature"]

---------------------------------------------------------------------------
(* More claims about the procedures, checked under SpecProc *)

\* The sum of the present-day values of a month, in hundredths.
MonthSum(present, m) ==
    SumOver([i \in DOMAIN present.values |-> present.values[i].n],
            {i \in DOMAIN present.values : MonthOf(i) = m})

\* The number of hours of a month.
MonthHours(present, m) == Cardinality({i \in DOMAIN present.values : MonthOf(i) = m})

\* C13: morph_glohor multiplies every hour of a month by 1 + (future rsds -
\* baseline rsds of the month) / (the month's present-day sum / the hours of
\* the month), that is by (sum + delta * hours) / sum, and rounds; with a
\* monthly mean of 200 and a delta of +20 the factor is 1.10.  Stated for
\* the calls in which no month has a zero sum.
C13_GlohorScaledByMonthlyFactor ==
    (proc = "morph_glohor" /\ raised = "") =>
        \A i \in DOMAIN args.present.values :
            LET m == MonthOf(i)
                total == MonthSum(args.present, m)
                hours == MonthHours(args.present, m)
                delta == args.future[m].n - args.baseline[m].n
                x == args.present.values[i]
            IN  /\ result.values[i] = FRound(FMul(x, Ratio(total + delta * hours, total)))
                /\ (total = Hundredths(200) * hours /\ delta = Hundredths(20))
                       => result.values[i] = FRound(FMul(x, Ratio(11, 10)))

\* A call of morph_glohor on a first month that is not constant, has the
\* mean 200 and a model delta of +20.
C13_Witness ==
    /\ proc = "morph_glohor"
    /\ raised = ""
    /\ MonthSum(args.present, 1) = Hundredths(200) * MonthHours(args.present, 1)
    /\ args.future[1].n - args.baseline[1].n = Hundredths(20)
    /\ \E i, j \in DOMAIN args.present.values :
        /\ MonthOf(i) = 1 /\ MonthOf(j) = 1
        /\ args.present.values[i] # args.present.values[j]
        /\ result.values[i] # args.present.values[i]

\* C14: for a constant present-day dry-bulb series and model climatologies
\* with zero delta for tas, tasmax and tasmin, morph_dbt_year returns the
\* present-day series.
C14_ConstantDbtUnchanged ==
    (/\ proc = "morph_dbt_year"
     /\ \A i \in DOMAIN args.present.values : args.present.values[i] = args.present.values[1]
     /\ \A m \in Months :
         /\ args.future_tas[m] = args.baseline_tas[m]
         /\ args.future_tasmax[m] = args.baseline_tasmax[m]
         /\ args.future_tasmin[m] = args.baseline_tasmin[m])
    => /\ raised = ""
       /\ result.values = args.present.values

---------------------------------------------------------------------------
(* Claims about the utilities and the configuration, checked under SpecTools *)

\* C15: for every input of exactly 12 values (list, array or Series)
\* zip_month_data returns a mapping whose keys are exactly the months 1..12
\* and whose value at key i is the i-th input element; likewise zip_day_data
\* with the days 1..365.
C15_ZipKeysInOrder ==
    /\ (proc = "zip_month_data" /\ Len(args.data.items) = NumMonths) =>
           /\ raised = ""
           /\ DOMAIN result = 1..NumMonths
           /\ \A i \in 1..NumMonths : result[i] = args.data.items[i]
    /\ (proc = "zip_day_data" /\ Len(args.data.items) = YearDays) =>
           /\ raised = ""
           /\ DOMAIN result = 1..YearDays
           /\ \A i \in 1..YearDays : result[i] = args.data.items[i]

\* A call of zip_month_data on a Series of one value per month, the values
\* all different.
C15_Witness ==
    /\ proc = "zip_month_data"
    /\ args.data.type = "Series"
    /\ Len(args.data.items) = NumMonths
    /\ \A i, j \in 1..NumMonths : args.data.items[i] = args.data.items[j] => i = j

\* C16: zip_month_data (zip_day_data) fails with a shape error when its
\* input does not have exactly 12 (365) elements, so that every mapping it
\* returns has all the keys.
C16_ZipRejectsWrongLength ==
    /\ (proc = "zip_month_data" /\ Len(args.data.items) # NumMonths) => raised # ""
    /\ (proc = "zip_day_data" /\ Len(args.data.items) # YearDays) => raised # ""
    /\ (proc = "zip_month_data" /\ raised = "") => DOMAIN result = 1..NumMonths
    /\ (proc = "zip_day_data" /\ raised = "") => DOMAIN result = 1..YearDays

\* x = n / d for a float x that is a number.
IsQuotient(x, n, d) == x.d > 0 /\ x.n * d = n * x.d

\* C17: the primitive transforms equal their formulas, elementwise:
\* shift(x, d) = x + d, so shift(x, d) - x = d; stretch(x, f) = x * f, so
\* stretch(x, 1) = x; shift_stretch(x, d, s, m) = x + d + s * (x - m), so
\* shift_stretch(x, 0, s, m) = x + s * (x - m).
C17_PrimitivesEqualFormulas ==
    /\ proc = "shift" =>
           \A i \in DOMAIN args.present :
               LET x == args.present[i]
                   d == args.delta
               IN  /\ IsQuotient(result[i], x.n * d.d + d.n * x.d, x.d * d.d)
                   /\ FEq(FSub(result[i], x), d)
    /\ proc = "stretch" =>
           \A i \in DOMAIN args.present :
               LET x == args.present[i]
                   f == args.stretch_factor
               IN  /\ IsQuotient(result[i], x.n * f.n, x.d * f.d)
                   /\ f = Num(1) => result[i] = x
    /\ proc = "shift_stretch" =>
           \A i \in DOMAIN args.present :
               LET x == args.present[i]
                   d == args.delta
                   f == args.scaling_factor
                   m == args.temporal_mean
                   num == x.n * d.d * f.d * m.d + d.n * x.d * f.d * m.d
                              + f.n * (x.n * m.d - m.n * x.d) * d.d
                   den == x.d * d.d * f.d * m.d
               IN  /\ IsQuotient(result[i], num, den)
                   /\ d = Num(0) =>
                          IsQuotient(result[i], x.n * f.d * m.d + f.n * (x.n * m.d - m.n * x.d),
                                     x.d * f.d * m.d)

\* A call of shift_stretch with a scaling factor and a temporal mean other
\* than zero, and an array shifted by a fractional delta.
C17_Witness ==
    \/ /\ proc = "shift_stretch"
       /\ args.scaling_factor = Ratio(5, 2)
       /\ args.temporal_mean = Ratio(-3, 2)
       /\ args.delta = Num(0)
    \/ /\ proc = "shift"
       /\ args.delta = Ratio(1, 2)
       /\ args.present[1] # args.present[2]

\* A list without repeated elements.
NoRepeats(list) == \A i, j \in DOMAIN list : list[i] = list[j] => i = j

\* The scenario id of a recognised pathway name.
ScenarioOf(name) ==
    IF name = "Best Case Scenario" THEN "ssp126"
    ELSE IF name = "Middle of the Road" THEN "ssp245"
    ELSE "ssp585"

\* C18: for every list of user variables and of user pathways MorphConfig
\* derives selections without duplicates, in which each recognised variable
\* contributes its model variables and each recognised pathway name
\* 'historical' and its scenario id; names that are not recognised
\* contribute nothing, so no recognised variable gives empty
\* model_variables and no recognised pathway gives empty model_pathways.
C18_ConfigSelections ==
    proc = "MorphConfig" =>
        LET uv == RangeOf(args.user_variables)
            up == RangeOf(args.user_pathways)
            mv == RangeOf(result.model_variables)
            mp == RangeOf(result.model_pathways)
        IN  /\ NoRepeats(result.model_variables)
            /\ NoRepeats(result.model_pathways)
            /\ \A v \in uv \cap UserVariables : NeededBy(v) \subseteq mv
            /\ mv \subseteq ModelVariables
            /\ uv \cap UserVariables = {} => result.model_variables = <<>>
            /\ \A n \in up \cap PathwayNames : {"historical", ScenarioOf(n)} \subseteq mp
            /\ mp \subseteq {"historical"} \cup {ScenarioOf(n) : n \in up \cap PathwayNames}
            /\ up \cap PathwayNames = {} => result.model_pathways = <<>>

\* A configuration in which two requested variables add the same model
\* variables, next to a name that is not recognised, and two pathway names
\* that both add 'historical'.
C18_Witness ==
    /\ proc = "MorphConfig"
    /\ {"Humidity", "Dew Point", "Precipitation"} \subseteq RangeOf(args.user_variables)
    /\ args.user_pathways = <<"Best Case Scenario", "Worst Case Scenario">>

\* C19: ts_8760 returns exactly 8760 hourly timestamps for every year, leap
\* or not, with or without a time zone, and never one of 29 February.
C19_AlwaysAYearOfHours ==
    proc = "ts_8760" =>
        /\ Len(result) = YearHours
        /\ \A k \in DOMAIN result :
               ~(result[k].month = LeapMonth /\ result[k].day = DaysPerMonth + 1)

(***************************************************************************)
(* More claims about morph_epw                                             *)
(***************************************************************************)

\* How many times the running call has called a procedure.
TimesCalled(name) == Cardinality({i \in DOMAIN called : called[i] = name})

\* C20: within one call of morph_epw, whatever the order of the requested
\* variables, the morphed dry bulb temperature and the morphed relative
\* humidity are each computed at most once.  (The 'Pressure' branch calls
\* morph_relhum on the pressure column, so the humidity count is read in the
\* calls that do not request 'Pressure'.)
C20_DbtAndRelhumComputedOnce ==
    NoRepeats(user_variables) =>
        /\ TimesCalled("morph_dbt_year") <= 1
        /\ "Pressure" \notin RangeOf(user_variables) => TimesCalled("morph_relhum") <= 1

---------------------------------------------------------------------------
(* Claims about morph_glohor at its edges, checked under SpecProc *)

\* C22: when the present-day global horizontal radiation of a month sums to
\* zero, morph_glohor does not fail and returns neither NaN nor an infinite
\* value at any hour.
C22_ZeroMonthIsDefined ==
    (/\ proc = "morph_glohor"
     /\ \E m \in Months : MonthSum(args.present, m) = 0) =>
        /\ raised = ""
        /\ \A i \in DOMAIN args.present.values : IsFinite(result.values[i])

\* C29: for a present-day series without negative values, no value that
\* morph_glohor returns is negative, whatever the baseline and future rsds
\* climatologies.
C29_GlohorNeverNegative ==
    (/\ proc = "morph_glohor"
     /\ raised = ""
     /\ \A i \in DOMAIN args.present.values : args.present.values[i].n >= 0) =>
        \A i \in DOMAIN result.values : result.values[i].n >= 0

---------------------------------------------------------------------------
(* More claims about morph_epw and MorphConfig, checked under SpecMorph *)

C25_RaiseLeavesEpwUntouched ==
    error.type # "" => epw = before

\* A call that raised after it had morphed a variable.
C25_Witness ==
    /\ morph_pc = "raised"
    /\ error.type # ""
    /\ morphed_dict.keys # <<>>

\* C27: the model variables that MorphConfig derives from a list of user
\* variables contain every model variable that morph_epw looks up for that
\* list: a morph on the model data compiled for them never fails for a
\* model variable that is not there.
C27_ConfigurationCoversLookups ==
    /\ \A i \in DOMAIN user_variables :
           NeededBy(user_variables[i]) \subseteq assign_model_variables(user_variables)
    /\ model_data = assign_model_variables(user_variables) =>
           ~(error.type = "KeyError" /\ error.key \in ModelVariables)

\* A morph of humidity and dew point on the model data of the configuration
\* that has gone through both lookups.
C27_Witness ==
    /\ model_data = assign_model_variables(user_variables)
    /\ "Dew Point" \in RangeOf(user_variables)
    /\ "Humidity" \in RangeOf(user_variables)
    /\ "morph_dewpt" \in RangeOf(called)
    /\ morph_pc = "done"

---------------------------------------------------------------------------
(* More claims about the solar markers, checked under SpecSolar *)

\* C26: for every marker array that build_sunrise_sunset produces, every
\* neighbour lookup of the persistence computation uses an index within the
\* hours of the year: the first hour never reads index -1 and the last hour
\* never reads the index after the last.
C26_LookupsStayInTheYear ==
    solar_pc # "start" =>
        \A i \in Rows : lookups(sunrise_sunset[i], i - 1) \subseteq 0..(YearHours - 1)

\* The row function on the last hour of a year whose first day has its
\* sunset in the first hour and whose last day has its sunrise in the last.
C26_Witness ==
    /\ solar_pc = "row"
    /\ row = YearHours - 1
    /\ persist.raised = ""
    /\ sun_hours.sunset[1] = 0
    /\ sun_hours.sunrise[YearDays] = HoursPerDay - 1

---------------------------------------------------------------------------
(* More claims about the utilities, checked under SpecTools *)

\* C23: row i of the table of solar_geometry describes the calendar hour of
\* position i of the weather record: the clock hour it uses for the local
\* solar time is i modulo the hours of a day, in every time zone.
C23_RowIsTheCalendarHour ==
    proc = "solar_geometry" =>
        \A i \in 0..(YearHours - 1) : result[i + 1] = i % HoursPerDay

---------------------------------------------------------------------------
(* Claims about the cache, checked under SpecCache *)

\* C21: the cache is bounded in size and evicts the oldest first: after
\* every completed save the files of the cache total at most
\* CACHE_MAX_SIZE_MB, and the cleanup removes no file while an older one
\* remains and none once the total is within the limit.  Read on the runs
\* in which no other process touches the cache.
C21_BoundedOldestFirst ==
    ~interfered =>
        /\ (cache_pc = "idle" /\ cache_op.name = "save") =>
               TotalSize(cache_files) <= CACHE_MAX_SIZE_MB
        /\ \A i \in DOMAIN removed :
               ~removed[i].older_remains /\ ~removed[i].within_limit

\* C28: a get that follows a save without write error, with the same key
\* parameters and the sources in any order, returns the saved data, for any
\* earlier contents of the cache and any size of the data.  Read on the
\* runs in which no other process touches the cache.
C28_SaveThenGetRoundTrip ==
    (/\ ~interfered
     /\ cache_pc = "idle"
     /\ cache_op.name = "get"
     /\ cache_prev.name = "save"
     /\ cache_prev.written
     /\ KeyOf(cache_op.params) = KeyOf(cache_prev.params)) =>
        cache_result = cache_prev.data

\* C30: get_cached_data and get_cached_coordinate_data never raise, whatever
\* the state of the file and whatever other processes do to it meanwhile.
C30_GetNeverRaises ==
    cache_op.name = "get" => cache_raised = ""

============================================================================
